---- MODULE Spec2Model ----
(***************************************************************************)
(* warrant: the SRP challenge/response state machine of AWSSRP             *)
(* (src/warrant/aws_srp.py) and the token handling of the Cognito session  *)
(* (src/warrant/__init__.py).                                              *)
(*                                                                         *)
(* Python dicts are functions whose DOMAIN is the set of keys present;     *)
(* None is the string "None".  An exception is a record [type, args]; a    *)
(* call that raises yields [raised |-> exc], one that returns yields       *)
(* [value |-> v].  The IDP (boto3 client) is a nondeterministic collaborator*)
(* given as the sets of responses it may return to each RPC.               *)
(***************************************************************************)
EXTENDS Integers, Sequences, FiniteSets, TLC

VARIABLES
    aws,    \* the AWSSRP object under test (SpecSrp)
    run,    \* the last finished AWSSRP entry-point call: its RPCs and its outcome
    cognito, \* the Cognito session object
    env,    \* the COGNITO_JWKS environment variable
    last,   \* the Cognito operation that has just finished, or [op |-> "none"]
    peer,   \* a second Cognito session on the same pool, in the same process (SpecVerify)
    before, \* the verify_token call before `last`, in short (SpecVerify)
    threads, \* where each concurrent caller of the session stands (SpecThreads)
    log     \* the requests sent and the JWKS cache writes made by the callers, in order

vars == <<aws, run, cognito, env, last, peer, before, threads, log>>

None == "None"

(***************************************************************************)
(* Python helpers                                                          *)
(***************************************************************************)
\* dict.get(key): the value, or None when the key is absent
Get(d, key) == IF key \in DOMAIN d THEN d[key] ELSE None

\* dict.update(extra): the keys of extra override those of d
Update(d, extra) == extra @@ d

Exception(type, msg) == [type |-> type, args |-> <<msg>>]
KeyError(key) == Exception("KeyError", key)

Raise(calls, exc) == [calls |-> calls, raised |-> exc]
Return(calls, v) == [calls |-> calls, value |-> v]
Raised(r) == "raised" \in DOMAIN r

\* one RPC to the IDP together with the response it got
Call(rpc, kwargs, response) == [rpc |-> rpc, kwargs |-> kwargs, response |-> response]

\* a response of the IDP that stands for the RPC raising (transport / service error)
ClientError == [Error |-> "ClientError"]
Failed(response) == "Error" \in DOMAIN response

(***************************************************************************)
(* src/warrant/aws_srp.py                                                  *)
(***************************************************************************)
NEW_PASSWORD_REQUIRED_CHALLENGE == "NEW_PASSWORD_REQUIRED"
PASSWORD_VERIFIER_CHALLENGE == "PASSWORD_VERIFIER"
DEVICE_SRP_AUTH == "DEVICE_SRP_AUTH"
SOFTWARE_TOKEN_MFA_CHALLENGE == "SOFTWARE_TOKEN_MFA"

\* pool_id.split('_')[1]
PoolShortId(pool_id) == IF pool_id = "us-east-1_Pool1" THEN "Pool1" ELSE pool_id

\* '%s' % v : None prints as the text None
Str(v) == v

\* a str of hexadecimal digits is the sequence of its characters
HexDigits == <<"0", "1", "2", "3", "4", "5", "6", "7", "8", "9", "a", "b", "c", "d", "e", "f">>
UpperHexDigits == <<"0", "1", "2", "3", "4", "5", "6", "7", "8", "9", "A", "B", "C", "D", "E", "F">>

\* the group modulus and generator.  The 3072-bit safe prime of the source is beyond the
\* integers of the checker; 0x17 = 23 = 2 * 11 + 1 is the safe prime that stands for it.
n_hex == <<"1", "7">>
g_hex == <<"2">>

\* the value of one hexadecimal digit, in either case
DigitValue(c) == CHOOSE v \in 0..15 : HexDigits[v + 1] = c \/ UpperHexDigits[v + 1] = c

\* int(hex_string, 16) for an optional sign followed by hexadecimal digits
RECURSIVE ParseHex(_)
ParseHex(digits) ==
    IF Len(digits) = 1
    THEN DigitValue(digits[1])
    ELSE 16 * ParseHex(SubSeq(digits, 1, Len(digits) - 1)) + DigitValue(digits[Len(digits)])

hex_to_long(hex_string) ==
    IF Head(hex_string) = "-" THEN 0 - ParseHex(Tail(hex_string)) ELSE ParseHex(hex_string)

\* '%x' % n for n >= 0: no leading zero, lower case
RECURSIVE FormatHex(_)
FormatHex(n) ==
    IF n < 16
    THEN <<HexDigits[n + 1]>>
    ELSE Append(FormatHex(n \div 16), HexDigits[(n % 16) + 1])

\* '%x' % long_num: a negative number prints as a minus sign and the digits of -long_num
long_to_hex(long_num) ==
    IF long_num < 0 THEN <<"-">> \o FormatHex(0 - long_num) ELSE FormatHex(long_num)

\* pad_hex once hash_str is bound: a str argument is taken as it is
pad_hex_str(hash_str) ==
    IF Len(hash_str) % 2 = 1
    THEN <<"0">> \o hash_str
    ELSE IF hash_str[1] \in {"8", "9", "A", "B", "C", "D", "E", "F", "a", "b", "c", "d", "e", "f"}
    THEN <<"0", "0">> \o hash_str
    ELSE hash_str

\* pad_hex that never pads
pad_hex_Unpadded(long_int) == long_to_hex(long_int)

\* pad_hex of an integer
pad_hex(long_int) == pad_hex_str(long_to_hex(long_int))

\* pow(base, exponent, modulus) of Python, by squaring
RECURSIVE pow(_, _, _)
pow(base, exponent, modulus) ==
    IF exponent = 0
    THEN 1 % modulus
    ELSE LET half == pow(base, exponent \div 2, modulus)
         IN  IF exponent % 2 = 1
             THEN (((half * half) % modulus) * base) % modulus
             ELSE (half * half) % modulus

\* generate_random_small_a for the number that get_random(128) returned
generate_random_small_a(big_n, random_long_int) == random_long_int % big_n

\* calculate_a without the safety check
calculate_a_Unchecked(g, small_a_value, big_n) ==
    [value |-> pow(g, small_a_value, big_n)]

calculate_a(g, small_a_value, big_n) ==
    LET big_a == pow(g, small_a_value, big_n) IN
    IF big_a % big_n = 0
    THEN [raised |-> Exception("ValueError", "Safety check for A failed")]
    ELSE [value |-> big_a]

\* the numbers AWSSRP.__init__ computes, for the modulus n and the number that
\* get_random(128) returned; large_a_value is absent when calculate_a raises
SrpNumbers(n, random_long_int) ==
    LET big_n == hex_to_long(n)
        g == hex_to_long(g_hex)
        small_a_value == generate_random_small_a(big_n, random_long_int)
        large_a_value == calculate_a(g, small_a_value, big_n)
        numbers == [big_n |-> big_n, g |-> g, small_a_value |-> small_a_value]
    IN  IF Raised(large_a_value)
        THEN Update(numbers, [raised |-> large_a_value.raised])
        ELSE Update(numbers, [large_a_value |-> large_a_value.value])

\* the S of get_password_authentication_key and get_device_authentication_key computed
\* with a remainder that takes the sign of the base
s_value_SignedRemainder(g, k, big_n, small_a_value, u_value, x_value, server_b_value) ==
    IF u_value = 0
    THEN [raised |-> Exception("ValueError", "U cannot be zero.")]
    ELSE LET g_mod_pow_xn == pow(g, x_value, big_n)
             int_value2 == server_b_value - k * g_mod_pow_xn
         IN  [int_value2 |-> int_value2,
              value |-> IF int_value2 < 0
                        THEN 0 - pow(0 - int_value2, small_a_value + u_value * x_value, big_n)
                        ELSE pow(int_value2, small_a_value + u_value * x_value, big_n)]

\* the integer part of get_password_authentication_key and of
\* get_device_authentication_key, for the hash values k, u_value and x_value
s_value(g, k, big_n, small_a_value, u_value, x_value, server_b_value) ==
    IF u_value = 0
    THEN [raised |-> Exception("ValueError", "U cannot be zero.")]
    ELSE LET g_mod_pow_xn == pow(g, x_value, big_n)
             int_value2 == server_b_value - k * g_mod_pow_xn
         IN  [int_value2 |-> int_value2,
              value |-> pow(int_value2, small_a_value + u_value * x_value, big_n)]

get_secret_hash(username, client_id, client_secret) ==
    <<"b64", "HMAC-SHA256", client_secret, username \o client_id>>

get_auth_params(self) ==
    LET auth_params == [USERNAME |-> self.username,
                        SRP_A |-> long_to_hex(self.large_a_value)]
        p1 == IF self.client_secret # None
              THEN Update(auth_params,
                          [SECRET_HASH |-> get_secret_hash(self.username, self.client_id,
                                                           self.client_secret)])
              ELSE auth_params
    IN  IF self.device_key # None
        THEN Update(p1, [DEVICE_KEY |-> self.device_key])
        ELSE p1

\* the HKDF of the SRP session secret, as a term over what it is derived from
get_password_authentication_key(self, username, password, server_b_value, salt) ==
    <<"hkdf", self.small_a_value, server_b_value, salt,
      PoolShortId(self.pool_id) \o username \o ":" \o password>>

Timestamp == "Fri Jan 5 09:07:02 UTC 2024"

FirstMissing(d, keys) == CHOOSE i \in 1..Len(keys) :
    /\ keys[i] \notin DOMAIN d
    /\ \A j \in 1..(i-1) : keys[j] \in DOMAIN d

HasAll(d, keys) == \A i \in 1..Len(keys) : keys[i] \in DOMAIN d

\* process_challenge answering with the caller's user name
process_challenge_CallerName(self, challenge_parameters) ==
    LET needed == <<"USER_ID_FOR_SRP", "SALT", "SRP_B", "SECRET_BLOCK">> IN
    IF ~HasAll(challenge_parameters, needed)
    THEN [raised |-> KeyError(needed[FirstMissing(challenge_parameters, needed)])]
    ELSE
    LET user_id_for_srp == challenge_parameters["USER_ID_FOR_SRP"]
        salt_hex == challenge_parameters["SALT"]
        srp_b_hex == challenge_parameters["SRP_B"]
        secret_block_b64 == challenge_parameters["SECRET_BLOCK"]
        hkdf == get_password_authentication_key(self, user_id_for_srp, self.password,
                                                srp_b_hex, salt_hex)
        msg == <<PoolShortId(self.pool_id), user_id_for_srp, secret_block_b64, Timestamp>>
        response == [TIMESTAMP |-> Timestamp,
                     USERNAME |-> self.username,
                     PASSWORD_CLAIM_SECRET_BLOCK |-> secret_block_b64,
                     PASSWORD_CLAIM_SIGNATURE |-> <<"b64", "HMAC-SHA256", hkdf, msg>>]
        r1 == IF self.client_secret # None
              THEN Update(response,
                          [SECRET_HASH |-> get_secret_hash(self.username, self.client_id,
                                                           self.client_secret)])
              ELSE response
    IN  [value |-> IF self.device_key # None
                   THEN Update(r1, [DEVICE_KEY |-> self.device_key])
                   ELSE r1]

process_challenge(self, challenge_parameters) ==
    LET needed == <<"USER_ID_FOR_SRP", "SALT", "SRP_B", "SECRET_BLOCK">> IN
    IF ~HasAll(challenge_parameters, needed)
    THEN [raised |-> KeyError(needed[FirstMissing(challenge_parameters, needed)])]
    ELSE
    LET user_id_for_srp == challenge_parameters["USER_ID_FOR_SRP"]
        salt_hex == challenge_parameters["SALT"]
        srp_b_hex == challenge_parameters["SRP_B"]
        secret_block_b64 == challenge_parameters["SECRET_BLOCK"]
        hkdf == get_password_authentication_key(self, user_id_for_srp, self.password,
                                                srp_b_hex, salt_hex)
        msg == <<PoolShortId(self.pool_id), user_id_for_srp, secret_block_b64, Timestamp>>
        response == [TIMESTAMP |-> Timestamp,
                     USERNAME |-> user_id_for_srp,
                     PASSWORD_CLAIM_SECRET_BLOCK |-> secret_block_b64,
                     PASSWORD_CLAIM_SIGNATURE |-> <<"b64", "HMAC-SHA256", hkdf, msg>>]
        r1 == IF self.client_secret # None
              THEN Update(response,
                          [SECRET_HASH |-> get_secret_hash(self.username, self.client_id,
                                                           self.client_secret)])
              ELSE response
    IN  [value |-> IF self.device_key # None
                   THEN Update(r1, [DEVICE_KEY |-> self.device_key])
                   ELSE r1]

get_device_authentication_key(self, device_group_key, device_key, device_password, server_b_value, salt) ==
    <<"hkdf", self.small_a_value, server_b_value, salt,
      Str(device_group_key) \o Str(device_key) \o ":" \o Str(device_password)>>

process_device_challenge(self, challenge_parameters) ==
    LET needed == <<"USERNAME", "SALT", "SRP_B", "SECRET_BLOCK">> IN
    IF ~HasAll(challenge_parameters, needed)
    THEN [raised |-> KeyError(needed[FirstMissing(challenge_parameters, needed)])]
    ELSE
    LET username == challenge_parameters["USERNAME"]
        salt_hex == challenge_parameters["SALT"]
        srp_b_hex == challenge_parameters["SRP_B"]
        secret_block_b64 == challenge_parameters["SECRET_BLOCK"]
        hkdf == get_device_authentication_key(self, self.device_group_key, self.device_key,
                                              self.device_password, srp_b_hex, salt_hex)
    IN  \* bytearray(None, 'utf-8') raises TypeError
        IF self.device_group_key = None \/ self.device_key = None
        THEN [raised |-> Exception("TypeError", "encoding without a string argument")]
        ELSE
        LET msg == <<self.device_group_key, self.device_key, secret_block_b64, Timestamp>>
            response == [TIMESTAMP |-> Timestamp,
                         USERNAME |-> username,
                         PASSWORD_CLAIM_SECRET_BLOCK |-> secret_block_b64,
                         PASSWORD_CLAIM_SIGNATURE |-> <<"b64", "HMAC-SHA256", hkdf, msg>>,
                         DEVICE_KEY |-> self.device_key]
        IN  [value |-> IF self.client_secret # None
                       THEN Update(response,
                                   [SECRET_HASH |-> get_secret_hash(username, self.client_id,
                                                                    self.client_secret)])
                       ELSE response]


\* boto_client.respond_to_auth_challenge(**kwargs) appended to the calls made so far
Respond(calls, kwargs, response) ==
    Append(calls, Call("respond_to_auth_challenge", kwargs, response))

RpcError(rpc) == Exception("ClientError", rpc)

\* _authenticate_device that answers again for as long as the IDP sends a challenge,
\* up to a fifth RPC
_authenticate_device_AnswersAgain(self, client, calls, response) ==
    LET auth_params == get_auth_params(self)
        k1 == [ClientId |-> self.client_id,
               ChallengeName |-> "DEVICE_SRP_AUTH",
               ChallengeResponses |-> auth_params]
    IN  UNION {
          LET c1 == Respond(calls, k1, response_auth) IN
          IF Failed(response_auth)
          THEN {Raise(c1, RpcError("respond_to_auth_challenge"))}
          ELSE IF "ChallengeParameters" \notin DOMAIN response_auth
          THEN {Raise(c1, KeyError("ChallengeParameters"))}
          ELSE
            LET cr == process_device_challenge(self, response_auth["ChallengeParameters"]) IN
            IF Raised(cr)
            THEN {Raise(c1, cr.raised)}
            ELSE { LET c2 == Respond(c1, [ClientId |-> self.client_id,
                                          ChallengeName |-> "DEVICE_PASSWORD_VERIFIER",
                                          ChallengeResponses |-> cr.value],
                                     response_verifier)
                   IN  IF Failed(response_verifier)
                       THEN Raise(c2, RpcError("respond_to_auth_challenge"))
                       ELSE IF "ChallengeName" \in DOMAIN response_verifier
                       THEN Return(Respond(c2, [ClientId |-> self.client_id,
                                                ChallengeName |-> "DEVICE_PASSWORD_VERIFIER",
                                                ChallengeResponses |-> cr.value],
                                           response_verifier),
                                   response_verifier)
                       ELSE Return(c2, response_verifier)
                   : response_verifier \in
                         client.respond_to_auth_challenge["DEVICE_PASSWORD_VERIFIER"] }
          : response_auth \in client.respond_to_auth_challenge["DEVICE_SRP_AUTH"] }

\* the set of possible executions of _authenticate_device against the IDP `client`
_authenticate_device(self, client, calls, response) ==
    LET auth_params == get_auth_params(self)
        k1 == [ClientId |-> self.client_id,
               ChallengeName |-> "DEVICE_SRP_AUTH",
               ChallengeResponses |-> auth_params]
    IN  UNION {
          LET c1 == Respond(calls, k1, response_auth) IN
          IF Failed(response_auth)
          THEN {Raise(c1, RpcError("respond_to_auth_challenge"))}
          ELSE IF "ChallengeParameters" \notin DOMAIN response_auth
          THEN {Raise(c1, KeyError("ChallengeParameters"))}
          ELSE
            LET cr == process_device_challenge(self, response_auth["ChallengeParameters"]) IN
            IF Raised(cr)
            THEN {Raise(c1, cr.raised)}
            ELSE { LET c2 == Respond(c1, [ClientId |-> self.client_id,
                                          ChallengeName |-> "DEVICE_PASSWORD_VERIFIER",
                                          ChallengeResponses |-> cr.value],
                                     response_verifier)
                   IN  IF Failed(response_verifier)
                       THEN Raise(c2, RpcError("respond_to_auth_challenge"))
                       ELSE Return(c2, response_verifier)
                   : response_verifier \in
                         client.respond_to_auth_challenge["DEVICE_PASSWORD_VERIFIER"] }
          : response_auth \in client.respond_to_auth_challenge["DEVICE_SRP_AUTH"] }

InitiateAuth(self, auth_params, response) ==
    <<Call("initiate_auth",
           [AuthFlow |-> "USER_SRP_AUTH", AuthParameters |-> auth_params,
            ClientId |-> self.client_id],
           response)>>

NotSupported(response) ==
    Exception("NotImplementedError",
              "The " \o response["ChallengeName"] \o " challenge is not supported")

PasswordVerifierKwargs(self, challenge_response) ==
    [ClientId |-> self.client_id,
     ChallengeName |-> PASSWORD_VERIFIER_CHALLENGE,
     ChallengeResponses |-> challenge_response]

\* authenticate_user without the SOFTWARE_TOKEN_MFA branch
authenticate_user_tokens_NoMfaCheck(self, client, c2, tokens) ==
    IF Get(tokens, "ChallengeName") = DEVICE_SRP_AUTH
    THEN _authenticate_device(self, client, c2, tokens)
    ELSE IF Get(tokens, "ChallengeName") = NEW_PASSWORD_REQUIRED_CHALLENGE
    THEN {Raise(c2, Exception("ForceChangePasswordException",
                              "Change password before authenticating"))}
    ELSE {Return(c2, tokens)}

\* authenticate_user without the NEW_PASSWORD_REQUIRED branch
authenticate_user_tokens_NoNewPasswordCheck(self, client, c2, tokens) ==
    IF Get(tokens, "ChallengeName") = DEVICE_SRP_AUTH
    THEN _authenticate_device(self, client, c2, tokens)
    ELSE IF Get(tokens, "ChallengeName") = SOFTWARE_TOKEN_MFA_CHALLENGE
    THEN {Raise(c2, Exception("MFATokenRequiredException",
                              "Software MFA Token required to authenticate"))}
    ELSE {Return(c2, tokens)}

\* what authenticate_user does with the response to its PASSWORD_VERIFIER answer
authenticate_user_tokens(self, client, c2, tokens) ==
    IF Get(tokens, "ChallengeName") = DEVICE_SRP_AUTH
    THEN _authenticate_device(self, client, c2, tokens)
    ELSE IF Get(tokens, "ChallengeName") = NEW_PASSWORD_REQUIRED_CHALLENGE
    THEN {Raise(c2, Exception("ForceChangePasswordException",
                              "Change password before authenticating"))}
    ELSE IF Get(tokens, "ChallengeName") = SOFTWARE_TOKEN_MFA_CHALLENGE
    THEN {Raise(c2, Exception("MFATokenRequiredException",
                              "Software MFA Token required to authenticate"))}
    ELSE {Return(c2, tokens)}

\* authenticate_user that sends initiate_auth a second time when the first one failed
authenticate_user_RetriesInitiateAuth(self, client) ==
    LET auth_params == get_auth_params(self) IN
    UNION {
      LET c1 == InitiateAuth(self, auth_params, response) IN
      IF Failed(response)
      THEN {Raise(c1 \o InitiateAuth(self, auth_params, again), RpcError("initiate_auth"))
               : again \in {ClientError}}
      ELSE IF "ChallengeName" \notin DOMAIN response
      THEN {Raise(c1, KeyError("ChallengeName"))}
      ELSE IF response["ChallengeName"] = PASSWORD_VERIFIER_CHALLENGE
      THEN
        IF "ChallengeParameters" \notin DOMAIN response
        THEN {Raise(c1, KeyError("ChallengeParameters"))}
        ELSE
        LET challenge_response == process_challenge(self, response["ChallengeParameters"]) IN
        IF Raised(challenge_response)
        THEN {Raise(c1, challenge_response.raised)}
        ELSE UNION {
               LET c2 == Respond(c1, PasswordVerifierKwargs(self, challenge_response.value),
                                 tokens)
               IN  IF Failed(tokens)
                   THEN {Raise(c2, RpcError("respond_to_auth_challenge"))}
                   ELSE authenticate_user_tokens(self, client, c2, tokens)
               : tokens \in client.respond_to_auth_challenge[PASSWORD_VERIFIER_CHALLENGE] }
      ELSE {Raise(c1, NotSupported(response))}
      : response \in client.initiate_auth }

\* the set of possible executions of authenticate_user against the IDP `client`
authenticate_user(self, client) ==
    LET auth_params == get_auth_params(self) IN
    UNION {
      LET c1 == InitiateAuth(self, auth_params, response) IN
      IF Failed(response)
      THEN {Raise(c1, RpcError("initiate_auth"))}
      ELSE IF "ChallengeName" \notin DOMAIN response
      THEN {Raise(c1, KeyError("ChallengeName"))}
      ELSE IF response["ChallengeName"] = PASSWORD_VERIFIER_CHALLENGE
      THEN
        IF "ChallengeParameters" \notin DOMAIN response
        THEN {Raise(c1, KeyError("ChallengeParameters"))}
        ELSE
        LET challenge_response == process_challenge(self, response["ChallengeParameters"]) IN
        IF Raised(challenge_response)
        THEN {Raise(c1, challenge_response.raised)}
        ELSE UNION {
               LET c2 == Respond(c1, PasswordVerifierKwargs(self, challenge_response.value),
                                 tokens)
               IN  IF Failed(tokens)
                   THEN {Raise(c2, RpcError("respond_to_auth_challenge"))}
                   ELSE authenticate_user_tokens(self, client, c2, tokens)
               : tokens \in client.respond_to_auth_challenge[PASSWORD_VERIFIER_CHALLENGE] }
      ELSE {Raise(c1, NotSupported(response))}
      : response \in client.initiate_auth }

\* authenticate_user_with_mfa_token answering the MFA challenge with the user name that
\* came along with that challenge
authenticate_user_with_mfa_token_tokens_ChallengeName(self, client, mfaToken, userSub, c2, tokens) ==
    IF Get(tokens, "ChallengeName") = SOFTWARE_TOKEN_MFA_CHALLENGE
    THEN
      IF "Session" \notin DOMAIN tokens
      THEN {Raise(c2, KeyError("Session"))}
      ELSE
      LET challenge_response == [USERNAME |-> tokens["ChallengeParameters"]["USERNAME"],
                                 SOFTWARE_TOKEN_MFA_CODE |-> mfaToken]
      IN  { LET c3 == Respond(c2, [ClientId |-> self.client_id,
                                   ChallengeName |-> SOFTWARE_TOKEN_MFA_CHALLENGE,
                                   Session |-> tokens["Session"],
                                   ChallengeResponses |-> challenge_response],
                              mfa_response)
            IN  IF Failed(mfa_response)
                THEN Raise(c3, RpcError("respond_to_auth_challenge"))
                ELSE Return(c3, mfa_response)
            : mfa_response \in client.respond_to_auth_challenge[SOFTWARE_TOKEN_MFA_CHALLENGE] }
    ELSE {Return(c2, tokens)}

\* what authenticate_user_with_mfa_token does with the response to its PASSWORD_VERIFIER answer
authenticate_user_with_mfa_token_tokens(self, client, mfaToken, userSub, c2, tokens) ==
    IF Get(tokens, "ChallengeName") = SOFTWARE_TOKEN_MFA_CHALLENGE
    THEN
      IF "Session" \notin DOMAIN tokens
      THEN {Raise(c2, KeyError("Session"))}
      ELSE
      LET challenge_response == [USERNAME |-> userSub,
                                 SOFTWARE_TOKEN_MFA_CODE |-> mfaToken]
      IN  { LET c3 == Respond(c2, [ClientId |-> self.client_id,
                                   ChallengeName |-> SOFTWARE_TOKEN_MFA_CHALLENGE,
                                   Session |-> tokens["Session"],
                                   ChallengeResponses |-> challenge_response],
                              mfa_response)
            IN  IF Failed(mfa_response)
                THEN Raise(c3, RpcError("respond_to_auth_challenge"))
                ELSE Return(c3, mfa_response)
            : mfa_response \in client.respond_to_auth_challenge[SOFTWARE_TOKEN_MFA_CHALLENGE] }
    ELSE {Return(c2, tokens)}

\* response["ChallengeParameters"]["USERNAME"], read before ChallengeName is looked at
userSubOf(response) ==
    IF "ChallengeParameters" \notin DOMAIN response
    THEN [raised |-> KeyError("ChallengeParameters")]
    ELSE IF "USERNAME" \notin DOMAIN response["ChallengeParameters"]
    THEN [raised |-> KeyError("USERNAME")]
    ELSE [value |-> response["ChallengeParameters"]["USERNAME"]]

\* the set of possible executions of authenticate_user_with_mfa_token
authenticate_user_with_mfa_token(self, client, mfaToken) ==
    LET auth_params == get_auth_params(self) IN
    UNION {
      LET c1 == InitiateAuth(self, auth_params, response) IN
      IF Failed(response)
      THEN {Raise(c1, RpcError("initiate_auth"))}
      ELSE
      LET userSub == userSubOf(response) IN
      IF Raised(userSub)
      THEN {Raise(c1, userSub.raised)}
      ELSE IF "ChallengeName" \notin DOMAIN response
      THEN {Raise(c1, KeyError("ChallengeName"))}
      ELSE IF response["ChallengeName"] = PASSWORD_VERIFIER_CHALLENGE
      THEN
        LET challenge_response == process_challenge(self, response["ChallengeParameters"]) IN
        IF Raised(challenge_response)
        THEN {Raise(c1, challenge_response.raised)}
        ELSE UNION {
               LET c2 == Respond(c1, PasswordVerifierKwargs(self, challenge_response.value),
                                 tokens)
               IN  IF Failed(tokens)
                   THEN {Raise(c2, RpcError("respond_to_auth_challenge"))}
                   ELSE authenticate_user_with_mfa_token_tokens(self, client, mfaToken,
                                                                userSub.value, c2, tokens)
               : tokens \in client.respond_to_auth_challenge[PASSWORD_VERIFIER_CHALLENGE] }
      ELSE {Raise(c1, NotSupported(response))}
      : response \in client.initiate_auth }

\* set_new_password_challenge that also answers a SOFTWARE_TOKEN_MFA challenge
set_new_password_challenge_tokens_AnswersMfa(self, client, new_password, auth_params, c2, tokens) ==
    IF Get(tokens, "ChallengeName") = SOFTWARE_TOKEN_MFA_CHALLENGE
    THEN { Return(Respond(c2, [ClientId |-> self.client_id,
                               ChallengeName |-> SOFTWARE_TOKEN_MFA_CHALLENGE,
                               ChallengeResponses |->
                                   [USERNAME |-> auth_params["USERNAME"],
                                    SOFTWARE_TOKEN_MFA_CODE |-> new_password]],
                          mfa_response),
                  mfa_response)
           : mfa_response \in client.respond_to_auth_challenge[SOFTWARE_TOKEN_MFA_CHALLENGE] }
    ELSE
    IF "ChallengeName" \notin DOMAIN tokens
    THEN {Raise(c2, KeyError("ChallengeName"))}
    ELSE IF tokens["ChallengeName"] = NEW_PASSWORD_REQUIRED_CHALLENGE
    THEN
      IF "Session" \notin DOMAIN tokens
      THEN {Raise(c2, KeyError("Session"))}
      ELSE
      LET challenge_response == [USERNAME |-> auth_params["USERNAME"],
                                 NEW_PASSWORD |-> new_password]
      IN  { LET c3 == Respond(c2, [ClientId |-> self.client_id,
                                   ChallengeName |-> NEW_PASSWORD_REQUIRED_CHALLENGE,
                                   Session |-> tokens["Session"],
                                   ChallengeResponses |-> challenge_response],
                              new_password_response)
            IN  IF Failed(new_password_response)
                THEN Raise(c3, RpcError("respond_to_auth_challenge"))
                ELSE Return(c3, new_password_response)
            : new_password_response \in
                  client.respond_to_auth_challenge[NEW_PASSWORD_REQUIRED_CHALLENGE] }
    ELSE {Return(c2, tokens)}

\* what set_new_password_challenge does with the response to its PASSWORD_VERIFIER answer
set_new_password_challenge_tokens(self, client, new_password, auth_params, c2, tokens) ==
    IF "ChallengeName" \notin DOMAIN tokens
    THEN {Raise(c2, KeyError("ChallengeName"))}
    ELSE IF tokens["ChallengeName"] = NEW_PASSWORD_REQUIRED_CHALLENGE
    THEN
      IF "Session" \notin DOMAIN tokens
      THEN {Raise(c2, KeyError("Session"))}
      ELSE
      LET challenge_response == [USERNAME |-> auth_params["USERNAME"],
                                 NEW_PASSWORD |-> new_password]
      IN  { LET c3 == Respond(c2, [ClientId |-> self.client_id,
                                   ChallengeName |-> NEW_PASSWORD_REQUIRED_CHALLENGE,
                                   Session |-> tokens["Session"],
                                   ChallengeResponses |-> challenge_response],
                              new_password_response)
            IN  IF Failed(new_password_response)
                THEN Raise(c3, RpcError("respond_to_auth_challenge"))
                ELSE Return(c3, new_password_response)
            : new_password_response \in
                  client.respond_to_auth_challenge[NEW_PASSWORD_REQUIRED_CHALLENGE] }
    ELSE {Return(c2, tokens)}

\* the set of possible executions of set_new_password_challenge
set_new_password_challenge(self, client, new_password) ==
    LET auth_params == get_auth_params(self) IN
    UNION {
      LET c1 == InitiateAuth(self, auth_params, response) IN
      IF Failed(response)
      THEN {Raise(c1, RpcError("initiate_auth"))}
      ELSE IF "ChallengeName" \notin DOMAIN response
      THEN {Raise(c1, KeyError("ChallengeName"))}
      ELSE IF response["ChallengeName"] = PASSWORD_VERIFIER_CHALLENGE
      THEN
        IF "ChallengeParameters" \notin DOMAIN response
        THEN {Raise(c1, KeyError("ChallengeParameters"))}
        ELSE
        LET challenge_response == process_challenge(self, response["ChallengeParameters"]) IN
        IF Raised(challenge_response)
        THEN {Raise(c1, challenge_response.raised)}
        ELSE UNION {
               LET c2 == Respond(c1, PasswordVerifierKwargs(self, challenge_response.value),
                                 tokens)
               IN  IF Failed(tokens)
                   THEN {Raise(c2, RpcError("respond_to_auth_challenge"))}
                   ELSE set_new_password_challenge_tokens(self, client, new_password,
                                                          auth_params, c2, tokens)
               : tokens \in client.respond_to_auth_challenge[PASSWORD_VERIFIER_CHALLENGE] }
      ELSE {Raise(c1, NotSupported(response))}
      : response \in client.initiate_auth }

\* the number get_random(128) returns to the sessions of the protocol specifications
DrawnRandom == 29

\* AWSSRP.__init__
AWSSRP(username, password, pool_id, client_id, client_secret, device_key, device_password, device_group_key) ==
    [username |-> username, password |-> password, pool_id |-> pool_id,
     client_id |-> client_id, client_secret |-> client_secret,
     device_key |-> device_key, device_group_key |-> device_group_key,
     device_password |-> device_password,
     small_a_value |-> SrpNumbers(n_hex, DrawnRandom).small_a_value,
     large_a_value |-> SrpNumbers(n_hex, DrawnRandom).large_a_value]


(***************************************************************************)
(* The IDP as seen through ICognitoClient: the responses it may give       *)
(***************************************************************************)
\* user names the IDP may echo: the caller's own, or an internal subject id
UserIds == {"alice", "u-123"}
Sessions == {"S1", "S2"}
\* a challenge name outside the set AWSSRP handles
UNSUPPORTED_CHALLENGE == "SMS_MFA"

SrpParameters == [SALT |-> "5a17", SRP_B |-> "B", SECRET_BLOCK |-> "blk"]

Challenge(name, session, parameters) ==
    [ChallengeName |-> name, Session |-> session, ChallengeParameters |-> parameters]

\* ChallengeParameters of the first challenge: USER_ID_FOR_SRP, and USERNAME or not
InitiateAuthParameters(users) ==
    {Update(SrpParameters, [USER_ID_FOR_SRP |-> uid]) : uid \in users}
    \cup {Update(SrpParameters, [USER_ID_FOR_SRP |-> uid, USERNAME |-> u])
             : uid \in users, u \in users}

InitiateAuthResponses(users) ==
    {[ChallengeName |-> name, ChallengeParameters |-> cp]
        : name \in {PASSWORD_VERIFIER_CHALLENGE, UNSUPPORTED_CHALLENGE},
          cp \in InitiateAuthParameters(users)}
    \cup {ClientError}

\* AuthenticationResult := {IdToken, AccessToken, RefreshToken, TokenType, NewDeviceMetadata?}
AuthenticationResult(id, access, refresh, type) ==
    [IdToken |-> id, AccessToken |-> access, RefreshToken |-> refresh, TokenType |-> type]

NewDeviceMetadata == [DeviceKey |-> "dk-new", DeviceGroupKey |-> "dgk-new"]

TokenResponses(results) == {[AuthenticationResult |-> ar] : ar \in results}

NextChallenges(names, users, sessions) ==
    {Challenge(name, session, [USERNAME |-> u])
        : name \in names, session \in sessions, u \in users}

DevicePasswordVerifierChallenges(users, sessions) ==
    {Challenge("DEVICE_PASSWORD_VERIFIER", session, cp)
        : session \in sessions,
          cp \in {SrpParameters} \cup {Update(SrpParameters, [USERNAME |-> u]) : u \in users}}

\* responses to initiate_auth(AuthFlow='REFRESH_TOKEN'): new access and ID tokens, no
\* refresh token; HTTPStatusCode is the status boto3 reports in ResponseMetadata
HTTPStatusCodes == {200, 500}

RefreshResponses(results) ==
    {[AuthenticationResult |-> [AccessToken |-> ar.AccessToken, IdToken |-> ar.IdToken,
                                TokenType |-> ar.TokenType],
      ResponseMetadata |-> [HTTPStatusCode |-> code]]
        : ar \in results, code \in HTTPStatusCodes}

\* the response of an RPC that carries no data of interest
Ok == [ResponseMetadata |-> [HTTPStatusCode |-> 200]]

\* an IDP that returns tokens from `results` when it is satisfied, and names users
\* and server sessions from `users` and `sessions`
Client(results, users, sessions) ==
    [initiate_auth |-> InitiateAuthResponses(users),
     admin_initiate_auth |->
        TokenResponses(results)
        \cup NextChallenges({NEW_PASSWORD_REQUIRED_CHALLENGE}, users, sessions)
        \cup {ClientError},
     respond_to_auth_challenge |->
        [PASSWORD_VERIFIER |->
            TokenResponses(results)
            \cup NextChallenges({DEVICE_SRP_AUTH, SOFTWARE_TOKEN_MFA_CHALLENGE,
                                 NEW_PASSWORD_REQUIRED_CHALLENGE, UNSUPPORTED_CHALLENGE},
                                users, sessions)
            \cup {ClientError},
         DEVICE_SRP_AUTH |->
            DevicePasswordVerifierChallenges(users, sessions) \cup {ClientError},
         DEVICE_PASSWORD_VERIFIER |->
            TokenResponses(results)
            \cup NextChallenges({"DEVICE_PASSWORD_VERIFIER"}, users, sessions)
            \cup {ClientError},
         SOFTWARE_TOKEN_MFA |->
            TokenResponses(results)
            \cup NextChallenges({SOFTWARE_TOKEN_MFA_CHALLENGE}, users, sessions)
            \cup {ClientError},
         NEW_PASSWORD_REQUIRED |->
            TokenResponses(results)
            \cup NextChallenges({NEW_PASSWORD_REQUIRED_CHALLENGE}, users, sessions)
            \cup {ClientError}],
     refresh_token_auth |-> RefreshResponses(results) \cup {ClientError},
     confirm_device |-> {Ok, ClientError},
     update_device_status |-> {Ok, ClientError},
     global_sign_out |-> {Ok, ClientError},
     get_user_attribute_verification_code |-> {Ok, ClientError},
     verify_user_attribute |-> {Ok, ClientError},
     change_password |->
        {[ResponseMetadata |-> [HTTPStatusCode |-> code]] : code \in HTTPStatusCodes}
        \cup {ClientError}]

(***************************************************************************)
(* SpecSrp: one AWSSRP object driven through its three entry points        *)
(***************************************************************************)
SrpResults ==
    {AuthenticationResult("id-1", "access-1", "refresh-1", "Bearer"),
     Update(AuthenticationResult("id-2", "access-2", "refresh-2", "Bearer"),
            [NewDeviceMetadata |-> NewDeviceMetadata])}

SrpClient == Client(SrpResults, UserIds, Sessions)

POOL_ID == "us-east-1_Pool1"
CLIENT_ID == "abc"
USERNAME == "alice"
Passwords == {"pw"}
MfaTokens == {"654321"}
NewPasswords == {"pw-new"}
ClientSecrets == {None, "s3cret"}
\* (device_key, device_group_key, device_password) of a session
DeviceStates ==
    {[device_key |-> None, device_group_key |-> None, device_password |-> None],
     [device_key |-> "dk", device_group_key |-> "dgk", device_password |-> None],
     [device_key |-> "dk", device_group_key |-> "dgk", device_password |-> "dpw"]}

NoRun == [op |-> "none", calls |-> <<>>]
NoOperation == [op |-> "none"]

Finished(op, arg, r) == Update(r, [op |-> op, arg |-> arg])

InitSrp ==
    /\ aws = AWSSRP(USERNAME, "pw", POOL_ID, CLIENT_ID, None, None, None, None)
    /\ run = NoRun
    /\ cognito = [username |-> USERNAME]
    /\ env = None
    /\ last = NoOperation
    /\ peer = [username |-> USERNAME]
    /\ before = NoOperation
    /\ threads = <<>>
    /\ log = <<>>

\* a fresh AWSSRP object, as Cognito builds one for every authentication attempt
NewAWSSRP ==
    /\ \E secret \in ClientSecrets, d \in DeviceStates :
          aws' = AWSSRP(USERNAME, "pw", POOL_ID, CLIENT_ID, secret,
                        d.device_key, d.device_password, d.device_group_key)
    /\ run' = NoRun
    /\ UNCHANGED <<cognito, env, last, peer, before, threads, log>>

SrpAuthenticateUser ==
    /\ run = NoRun
    /\ \E r \in authenticate_user(aws, SrpClient) :
          run' = Finished("authenticate_user", None, r)
    /\ UNCHANGED <<aws, cognito, env, last, peer, before, threads, log>>

SrpAuthenticateUserWithMfaToken ==
    /\ run = NoRun
    /\ \E mfaToken \in MfaTokens :
          \E r \in authenticate_user_with_mfa_token(aws, SrpClient, mfaToken) :
             run' = Finished("authenticate_user_with_mfa_token", mfaToken, r)
    /\ UNCHANGED <<aws, cognito, env, last, peer, before, threads, log>>

SrpSetNewPasswordChallenge ==
    /\ run = NoRun
    /\ \E new_password \in NewPasswords :
          \E r \in set_new_password_challenge(aws, SrpClient, new_password) :
             run' = Finished("set_new_password_challenge", new_password, r)
    /\ UNCHANGED <<aws, cognito, env, last, peer, before, threads, log>>

NextSrp ==
    \/ NewAWSSRP
    \/ SrpAuthenticateUser
    \/ SrpAuthenticateUserWithMfaToken
    \/ SrpSetNewPasswordChallenge

SpecSrp == InitSrp /\ [][NextSrp]_vars


(***************************************************************************)
(* src/warrant/__init__.py: token verification                             *)
(***************************************************************************)
\* The JWTs the IDP may hand out: the kid of the header, the token_use and exp
\* claims (exp in seconds of the model's clock) and the key the signature was really
\* made with.
Jwts ==
    {[token |-> "id-1", kid |-> "k1", token_use |-> "id", signed_by |-> "k1", exp |-> 1],
     [token |-> "access-1", kid |-> "k1", token_use |-> "access", signed_by |-> "k1",
      exp |-> 1],
     [token |-> "id-forged", kid |-> "k1", token_use |-> "id", signed_by |-> "attacker",
      exp |-> 1],
     [token |-> "access-forged", kid |-> "k1", token_use |-> "access",
      signed_by |-> "attacker", exp |-> 1],
     [token |-> "id-k9", kid |-> "k9", token_use |-> "id", signed_by |-> "k9", exp |-> 1],
     [token |-> "access-k9", kid |-> "k9", token_use |-> "access", signed_by |-> "k9",
      exp |-> 1]}

Jwt(token) == CHOOSE j \in Jwts : j.token = token

\* jose.jwt.get_unverified_header / get_unverified_claims
get_unverified_header(token) == [kid |-> Jwt(token).kid]
get_unverified_claims(token) == [token_use |-> Jwt(token).token_use, exp |-> Jwt(token).exp]

\* jose.jwt.decode(token, key, algorithms=['RS256'], audience=<own aud>, issuer=<own iss>):
\* succeeds iff the signature was made with `key`
jwt_decode(token, key) == Jwt(token).signed_by = key.kid

\* JWKS documents, named by their text; "{}" is the empty dict
JwksDocuments ==
    {[text |-> "{}", keys |-> {}],
     [text |-> "jwks-env", keys |-> {"k1"}],
     [text |-> "jwks-net", keys |-> {"k1"}]}

Jwks(text) == CHOOSE d \in JwksDocuments : d.text = text

\* the keys of the dict and the list under 'keys'
DictKeys(text) == IF text = "{}" THEN {} ELSE {"keys"}
KeyList(text) == {[kid |-> k] : k \in Jwks(text).keys}

\* truth value of a dict-or-None
Truthy(d) == d # None /\ DictKeys(d) # {}

TokenVerificationException(msg) == Exception("TokenVerificationException", msg)

\* get_keys that asks the JWKS endpoint before it looks at the environment
get_keys_NetworkFirst(self, fetched) ==
    IF Truthy(self.pool_jwk)
    THEN [self |-> self, value |-> self.pool_jwk, gets |-> 0]
    ELSE [self |-> [self EXCEPT !.pool_jwk = fetched], value |-> fetched, gets |-> 1]

\* get_keys; `fetched` is the document the JWKS endpoint serves when it is asked and
\* `gets` counts the requests.get calls made
get_keys(self, fetched) ==
    IF Truthy(self.pool_jwk)
    THEN [self |-> self, value |-> self.pool_jwk, gets |-> 0]
    ELSE
      LET pool_jwk_env == IF env = None THEN "{}" ELSE env IN
      IF Cardinality(DictKeys(pool_jwk_env)) > 0
      THEN [self |-> [self EXCEPT !.pool_jwk = pool_jwk_env], value |-> pool_jwk_env,
            gets |-> 0]
      ELSE [self |-> [self EXCEPT !.pool_jwk = fetched], value |-> fetched, gets |-> 1]

get_key(self, kid, fetched) ==
    LET got == get_keys(self, fetched) IN
    IF "keys" \notin DictKeys(got.value)
    THEN [self |-> got.self, gets |-> got.gets,
          raised |-> Exception("TypeError", "'NoneType' object is not iterable")]
    ELSE
      LET key == {x \in KeyList(got.value) : x.kid = kid} IN
      IF key = {}
      THEN [self |-> got.self, gets |-> got.gets,
            raised |-> Exception("IndexError", "list index out of range")]
      ELSE [self |-> got.self, gets |-> got.gets, value |-> CHOOSE x \in key : TRUE]

\* verify_token without the token_use check
verify_token_AnyTokenUse(self, token, id_name, token_use, fetched) ==
    LET kid == get_unverified_header(token).kid
        unverified_claims == get_unverified_claims(token)
        token_use_verified == unverified_claims.token_use = token_use
    IN  IF FALSE
        THEN [self |-> self, gets |-> 0,
              raised |-> TokenVerificationException(
                             "Your {} token use could not be verified.")]
        ELSE
          LET hmac_key == get_key(self, kid, fetched) IN
          IF Raised(hmac_key)
          THEN hmac_key
          ELSE IF ~jwt_decode(token, hmac_key.value)
          THEN [self |-> hmac_key.self, gets |-> hmac_key.gets,
                raised |-> TokenVerificationException(
                               "Your {} token could not be verified.")]
          ELSE [self |-> [hmac_key.self EXCEPT ![id_name] = token], gets |-> hmac_key.gets,
                value |-> unverified_claims]

verify_token(self, token, id_name, token_use, fetched) ==
    LET kid == get_unverified_header(token).kid
        unverified_claims == get_unverified_claims(token)
        token_use_verified == unverified_claims.token_use = token_use
    IN  IF ~token_use_verified
        THEN [self |-> self, gets |-> 0,
              raised |-> TokenVerificationException(
                             "Your {} token use could not be verified.")]
        ELSE
          LET hmac_key == get_key(self, kid, fetched) IN
          IF Raised(hmac_key)
          THEN hmac_key
          ELSE IF ~jwt_decode(token, hmac_key.value)
          THEN [self |-> hmac_key.self, gets |-> hmac_key.gets,
                raised |-> TokenVerificationException(
                               "Your {} token could not be verified.")]
          ELSE [self |-> [hmac_key.self EXCEPT ![id_name] = token], gets |-> hmac_key.gets,
                value |-> unverified_claims]

(***************************************************************************)
(* src/warrant/__init__.py: the session and its authentication entry points*)
(***************************************************************************)
\* Cognito.__init__
Cognito(user_pool_id, client_id, username, id_token, refresh_token, access_token, client_secret, device_key, device_password, device_group_key) ==
    [user_pool_id |-> user_pool_id, client_id |-> client_id, username |-> username,
     id_token |-> id_token, access_token |-> access_token,
     refresh_token |-> refresh_token, client_secret |-> client_secret,
     token_type |-> None, pool_jwk |-> None,
     device_key |-> device_key, device_group_key |-> device_group_key,
     device_password |-> device_password]

_add_secret_hash(self, parameters, key) ==
    IF self.client_secret # None
    THEN Update(parameters,
                [k \in {key} |-> get_secret_hash(self.username, self.client_id,
                                                 self.client_secret)])
    ELSE parameters

\* the device part that records the device key and forgets the group key
SaveDevice_DeviceKeyOnly(self, result) ==
    IF "NewDeviceMetadata" \in DOMAIN result
    THEN [self EXCEPT !.device_key = result["NewDeviceMetadata"]["DeviceKey"]]
    ELSE self

\* the device part shared by the SRP entry points: record NewDeviceMetadata
SaveDevice(self, result) ==
    IF "NewDeviceMetadata" \in DOMAIN result
    THEN [self EXCEPT !.device_key = result["NewDeviceMetadata"]["DeviceKey"],
                      !.device_group_key = result["NewDeviceMetadata"]["DeviceGroupKey"]]
    ELSE self

\* admin_authenticate from the response of admin_initiate_auth on
admin_authenticate_tokens(self, tokens, fetched) ==
    IF "AuthenticationResult" \notin DOMAIN tokens
    THEN [self |-> self, raised |-> KeyError("AuthenticationResult")]
    ELSE
      LET result == tokens["AuthenticationResult"]
          v1 == verify_token(self, result["IdToken"], "id_token", "id", fetched)
      IN  IF Raised(v1) THEN v1
          ELSE
            LET s1 == [v1.self EXCEPT !.refresh_token = result["RefreshToken"]]
                v2 == verify_token(s1, result["AccessToken"], "access_token", "access",
                                   fetched)
            IN  IF Raised(v2) THEN v2
                ELSE [self |-> [v2.self EXCEPT !.token_type = result["TokenType"]],
                      value |-> None]

\* the set of possible executions of admin_authenticate
admin_authenticate(self, client, password, fetched) ==
    LET auth_params == _add_secret_hash(self,
                                        [USERNAME |-> self.username, PASSWORD |-> password],
                                        "SECRET_HASH")
    IN  { LET calls == <<Call("admin_initiate_auth",
                              [UserPoolId |-> self.user_pool_id,
                               ClientId |-> self.client_id,
                               AuthFlow |-> "ADMIN_NO_SRP_AUTH",
                               AuthParameters |-> auth_params],
                              tokens)>>
          IN  IF Failed(tokens)
              THEN [self |-> self, calls |-> calls,
                    raised |-> RpcError("admin_initiate_auth")]
              ELSE Update(admin_authenticate_tokens(self, tokens, fetched),
                          [calls |-> calls])
          : tokens \in client.admin_initiate_auth }

\* authenticate from the result of authenticate_user on
authenticate_tokens(self, user_tokens, fetched) ==
    IF "AuthenticationResult" \notin DOMAIN user_tokens
    THEN [self |-> self, raised |-> KeyError("AuthenticationResult")]
    ELSE
      LET result == user_tokens["AuthenticationResult"]
          v1 == verify_token(self, result["IdToken"], "id_token", "id", fetched)
      IN  IF Raised(v1) THEN v1
          ELSE
            LET s1 == [v1.self EXCEPT !.refresh_token = result["RefreshToken"]]
                v2 == verify_token(s1, result["AccessToken"], "access_token", "access",
                                   fetched)
            IN  IF Raised(v2) THEN v2
                ELSE [self |-> SaveDevice([v2.self EXCEPT
                                              !.token_type = result["TokenType"]], result),
                      value |-> None]

\* the set of possible executions of authenticate
authenticate(self, client, password, fetched) ==
    LET aws_srp == AWSSRP(self.username, password, self.user_pool_id, self.client_id,
                          self.client_secret, self.device_key, self.device_password,
                          self.device_group_key)
    IN  { IF Raised(r)
          THEN [self |-> self, calls |-> r.calls, raised |-> r.raised]
          ELSE Update(authenticate_tokens(self, r.value, fetched), [calls |-> r.calls])
          : r \in authenticate_user(aws_srp, client) }

\* authenticate_with_mfa_token from the result of authenticate_user_with_mfa_token on
authenticate_with_mfa_token_tokens(self, user_tokens, fetched) ==
    IF "AuthenticationResult" \notin DOMAIN user_tokens
    THEN [self |-> self, raised |-> KeyError("AuthenticationResult")]
    ELSE
      LET result == user_tokens["AuthenticationResult"]
          v1 == verify_token(self, result["IdToken"], "id_token", "id", fetched)
      IN  IF Raised(v1) THEN v1
          ELSE
            LET s1 == [v1.self EXCEPT !.refresh_token = result["RefreshToken"]]
                v2 == verify_token(s1, result["AccessToken"], "access_token", "access",
                                   fetched)
            IN  IF Raised(v2) THEN v2
                ELSE [self |-> SaveDevice([v2.self EXCEPT
                                              !.token_type = result["TokenType"]], result),
                      value |-> None]

\* the set of possible executions of authenticate_with_mfa_token
authenticate_with_mfa_token(self, client, password, mfaToken, fetched) ==
    LET aws_srp == AWSSRP(self.username, password, self.user_pool_id, self.client_id,
                          self.client_secret, self.device_key, self.device_password,
                          self.device_group_key)
    IN  { IF Raised(r)
          THEN [self |-> self, calls |-> r.calls, raised |-> r.raised]
          ELSE Update(authenticate_with_mfa_token_tokens(self, r.value, fetched),
                      [calls |-> r.calls])
          : r \in authenticate_user_with_mfa_token(aws_srp, client, mfaToken) }

\* new_password_challenge from the result of set_new_password_challenge on
new_password_challenge_tokens(self, tokens) ==
    IF "AuthenticationResult" \notin DOMAIN tokens
    THEN [self |-> self, raised |-> KeyError("AuthenticationResult")]
    ELSE
      LET result == tokens["AuthenticationResult"] IN
      [self |-> SaveDevice([self EXCEPT !.id_token = result["IdToken"],
                                        !.refresh_token = result["RefreshToken"],
                                        !.access_token = result["AccessToken"],
                                        !.token_type = result["TokenType"]], result),
       value |-> None]

\* the set of possible executions of new_password_challenge
new_password_challenge(self, client, password, new_password) ==
    LET aws_srp == AWSSRP(self.username, password, self.user_pool_id, self.client_id,
                          self.client_secret, None, None, None)
    IN  { IF Raised(r)
          THEN [self |-> self, calls |-> r.calls, raised |-> r.raised]
          ELSE Update(new_password_challenge_tokens(self, r.value), [calls |-> r.calls])
          : r \in set_new_password_challenge(aws_srp, client, new_password) }

(***************************************************************************)
(* src/warrant/__init__.py: token refresh and device registration          *)
(***************************************************************************)
\* botocore validates the parameters before it sends anything: a None among the
\* values `strings` that must be strings makes the call raise
Validated(strings, responses) == IF None \in strings THEN {ClientError} ELSE responses

\* _set_attributes that assigns whatever the status code
_set_attributes_AnyStatus(self, response, attribute_dict) ==
    IF "ResponseMetadata" \notin DOMAIN response
    THEN [self |-> self, raised |-> KeyError("ResponseMetadata")]
    ELSE [self |-> Update(self, attribute_dict), value |-> None]

\* _set_attributes: the default of response.get is evaluated before the lookup
_set_attributes(self, response, attribute_dict) ==
    IF "ResponseMetadata" \notin DOMAIN response
    THEN [self |-> self, raised |-> KeyError("ResponseMetadata")]
    ELSE
      LET status_code == IF "HTTPStatusCode" \in DOMAIN response
                         THEN response["HTTPStatusCode"]
                         ELSE response["ResponseMetadata"]["HTTPStatusCode"]
      IN  IF status_code = 200
          THEN [self |-> Update(self, attribute_dict), value |-> None]
          ELSE [self |-> self, value |-> None]

\* renew_access_token without the DEVICE_KEY parameter
renew_access_token_NoDeviceKey(self, client) ==
    LET p0 == [REFRESH_TOKEN |-> self.refresh_token]
        p1 == _add_secret_hash(self, p0, "SECRET_HASH")
        auth_params == p1
    IN  { LET calls == <<Call("initiate_auth",
                              [ClientId |-> self.client_id, AuthFlow |-> "REFRESH_TOKEN",
                               AuthParameters |-> auth_params],
                              refresh_response)>>
          IN  IF Failed(refresh_response)
              THEN [self |-> self, calls |-> calls, raised |-> RpcError("initiate_auth")]
              ELSE IF "AuthenticationResult" \notin DOMAIN refresh_response
              THEN [self |-> self, calls |-> calls,
                    raised |-> KeyError("AuthenticationResult")]
              ELSE Update(_set_attributes(
                              self, refresh_response,
                              [access_token |->
                                   refresh_response["AuthenticationResult"]["AccessToken"],
                               id_token |->
                                   refresh_response["AuthenticationResult"]["IdToken"],
                               token_type |->
                                   refresh_response["AuthenticationResult"]["TokenType"]]),
                          [calls |-> calls])
          : refresh_response \in Validated({self.refresh_token}, client.refresh_token_auth) }

\* the request of renew_access_token
renew_access_token_kwargs(self) ==
    LET p0 == [REFRESH_TOKEN |-> self.refresh_token]
        p1 == _add_secret_hash(self, p0, "SECRET_HASH")
        auth_params == IF self.device_key # None
                       THEN Update(p1, [DEVICE_KEY |-> self.device_key])
                       ELSE p1
    IN  [ClientId |-> self.client_id, AuthFlow |-> "REFRESH_TOKEN",
         AuthParameters |-> auth_params]

\* renew_access_token from the response of initiate_auth on
renew_access_token_tokens(self, calls, refresh_response) ==
    IF Failed(refresh_response)
    THEN [self |-> self, calls |-> calls, raised |-> RpcError("initiate_auth")]
    ELSE IF "AuthenticationResult" \notin DOMAIN refresh_response
    THEN [self |-> self, calls |-> calls, raised |-> KeyError("AuthenticationResult")]
    ELSE Update(_set_attributes(
                    self, refresh_response,
                    [access_token |-> refresh_response["AuthenticationResult"]["AccessToken"],
                     id_token |-> refresh_response["AuthenticationResult"]["IdToken"],
                     token_type |-> refresh_response["AuthenticationResult"]["TokenType"]]),
                [calls |-> calls])

\* the set of possible executions of renew_access_token
renew_access_token(self, client) ==
    { renew_access_token_tokens(
          self, <<Call("initiate_auth", renew_access_token_kwargs(self), refresh_response)>>,
          refresh_response)
      : refresh_response \in Validated({self.refresh_token}, client.refresh_token_auth) }

\* the set of possible executions of check_token at the clock reading `now`
check_token(self, client, renew, now) ==
    IF self.access_token = None
    THEN {[self |-> self, calls |-> <<>>,
           raised |-> Exception("AttributeError", "Access Token Required to Check Token")]}
    ELSE
      LET dec_access_token == get_unverified_claims(self.access_token)
          expired == now > dec_access_token.exp
      IN  IF expired /\ renew
          THEN { IF Raised(r) THEN r ELSE Update(r, [value |-> expired])
                 : r \in renew_access_token(self, client) }
          ELSE {[self |-> self, calls |-> <<>>, value |-> expired]}

\* can_register_device that looks at the device group key only
can_register_device_GroupKeyOnly(self) == self.device_group_key # None

can_register_device(self) == self.device_group_key # None /\ self.device_password = None

\* AWSSRP.generate_hash_device: the pairs (device_password, verifier config) it may
\* return, one for each random device password
DevicePasswords == {"dpw-1", "dpw-2"}

generate_hash_device(device_group_key, device_key) ==
    {<<device_password,
       [PasswordVerifier |-> <<"b64", "verifier", device_group_key, device_key,
                               device_password, "salt">>,
        Salt |-> <<"b64", "salt">>]>>
        : device_password \in DevicePasswords}

\* the set of possible executions of register_device
register_device(self, client, device_name, remember_device) ==
    IF ~can_register_device(self)
    THEN {[self |-> self, calls |-> <<>>,
           raised |-> Exception("ValueError",
                                "Device cannot be registered. This is not enabled in Cognito")]}
    ELSE UNION {
      LET device_password == generated[1]
          device_secret_verifier_config == generated[2]
          s1 == [self EXCEPT !.device_password = device_password]
          k1 == [AccessToken |-> self.access_token, DeviceKey |-> self.device_key,
                 DeviceSecretVerifierConfig |-> device_secret_verifier_config,
                 DeviceName |-> device_name]
          k2 == [AccessToken |-> self.access_token, DeviceKey |-> self.device_key,
                 DeviceRememberedStatus |-> IF remember_device THEN "remembered"
                                            ELSE "not_remembered"]
      IN  UNION {
            LET c1 == <<Call("confirm_device", k1, confirmed)>> IN
            IF Failed(confirmed)
            THEN {[self |-> s1, calls |-> c1, raised |-> RpcError("confirm_device")]}
            ELSE { LET c2 == Append(c1, Call("update_device_status", k2, updated)) IN
                   IF Failed(updated)
                   THEN [self |-> s1, calls |-> c2,
                         raised |-> RpcError("update_device_status")]
                   ELSE [self |-> s1, calls |-> c2, value |-> device_password]
                   : updated \in Validated({self.access_token, self.device_key},
                                               client.update_device_status) }
            : confirmed \in Validated({self.access_token, self.device_key},
                                      client.confirm_device) }
      : generated \in generate_hash_device(self.device_group_key, self.device_key) }

(***************************************************************************)
(* src/warrant/__init__.py: logout                                         *)
(***************************************************************************)
\* logout that clears the slots before it calls the IDP
logout_ClearsFirst(self, client) ==
    { LET calls == <<Call("global_sign_out", [AccessToken |-> self.access_token], response)>>
          cleared == [self EXCEPT !.id_token = None, !.refresh_token = None,
                                  !.access_token = None, !.token_type = None]
      IN  IF Failed(response)
          THEN [self |-> cleared, calls |-> calls, raised |-> RpcError("global_sign_out")]
          ELSE [self |-> cleared, calls |-> calls, value |-> None]
      : response \in Validated({self.access_token}, client.global_sign_out) }

\* logout that keeps the refresh token
logout_KeepsRefreshToken(self, client) ==
    { LET calls == <<Call("global_sign_out", [AccessToken |-> self.access_token], response)>>
      IN  IF Failed(response)
          THEN [self |-> self, calls |-> calls, raised |-> RpcError("global_sign_out")]
          ELSE [self |-> [self EXCEPT !.id_token = None, !.access_token = None,
                                      !.token_type = None],
                calls |-> calls, value |-> None]
      : response \in Validated({self.access_token}, client.global_sign_out) }

\* the set of possible executions of logout
logout(self, client) ==
    { LET calls == <<Call("global_sign_out", [AccessToken |-> self.access_token], response)>>
      IN  IF Failed(response)
          THEN [self |-> self, calls |-> calls, raised |-> RpcError("global_sign_out")]
          ELSE [self |-> [self EXCEPT !.id_token = None, !.refresh_token = None,
                                      !.access_token = None, !.token_type = None],
                calls |-> calls, value |-> None]
      : response \in Validated({self.access_token}, client.global_sign_out) }

(***************************************************************************)
(* src/warrant/__init__.py: the operations that check the token first      *)
(***************************************************************************)
\* what follows self.check_token() in an operation that makes the one RPC `rpc`
AfterCheckToken(checked, rpc, kwargs, responses) ==
    { LET calls == Append(checked.calls, Call(rpc, kwargs, response)) IN
      IF Failed(response)
      THEN [self |-> checked.self, calls |-> calls, raised |-> RpcError(rpc)]
      ELSE [self |-> checked.self, calls |-> calls, value |-> response]
      : response \in Validated({kwargs["AccessToken"]}, responses) }

\* the set of possible executions of send_verification at the clock reading `now`
send_verification(self, client, attribute, now) ==
    UNION {
      IF Raised(checked) THEN {checked}
      ELSE { IF Raised(o) THEN o ELSE Update(o, [value |-> None])
             : o \in AfterCheckToken(checked, "get_user_attribute_verification_code",
                                     [AccessToken |-> checked.self.access_token,
                                      AttributeName |-> attribute],
                                     client.get_user_attribute_verification_code) }
      : checked \in check_token(self, client, TRUE, now) }

\* the set of possible executions of validate_verification
validate_verification(self, client, confirmation_code, attribute, now) ==
    UNION {
      IF Raised(checked) THEN {checked}
      ELSE AfterCheckToken(checked, "verify_user_attribute",
                           [AccessToken |-> checked.self.access_token,
                            AttributeName |-> attribute, Code |-> confirmation_code],
                           client.verify_user_attribute)
      : checked \in check_token(self, client, TRUE, now) }

\* change_password without the look at the token
change_password_Unchecked(self, client, previous_password, proposed_password, now) ==
    UNION {
      { IF Raised(o) THEN o
        ELSE Update(_set_attributes(o.self, o.value, [password |-> proposed_password]),
                    [calls |-> o.calls])
        : o \in AfterCheckToken(checked, "change_password",
                                [PreviousPassword |-> previous_password,
                                 ProposedPassword |-> proposed_password,
                                 AccessToken |-> checked.self.access_token],
                                client.change_password) }
      : checked \in {[self |-> self, calls |-> <<>>, value |-> FALSE]} }

\* the set of possible executions of change_password
change_password(self, client, previous_password, proposed_password, now) ==
    UNION {
      IF Raised(checked) THEN {checked}
      ELSE { IF Raised(o) THEN o
             ELSE Update(_set_attributes(o.self, o.value, [password |-> proposed_password]),
                         [calls |-> o.calls])
             : o \in AfterCheckToken(checked, "change_password",
                                     [PreviousPassword |-> previous_password,
                                      ProposedPassword |-> proposed_password,
                                      AccessToken |-> checked.self.access_token],
                                     client.change_password) }
      : checked \in check_token(self, client, TRUE, now) }

(***************************************************************************)
(* Spec: one Cognito session driven through its authentication entry       *)
(* points, token refresh and device registration                           *)
(***************************************************************************)
IdTokens == {"id-1", "access-1", "id-forged", "id-k9"}
AccessTokens == {"access-1", "id-1", "access-forged", "access-k9"}
RefreshTokens == {"refresh-1", "refresh-2"}

CognitoResults ==
    LET plain == {AuthenticationResult(id, access, refresh, "Bearer")
                     : id \in IdTokens, access \in AccessTokens, refresh \in RefreshTokens}
    IN  plain \cup {Update(ar, [NewDeviceMetadata |-> NewDeviceMetadata]) : ar \in plain}

CognitoClient == Client(CognitoResults, {"u-123"}, {"S1"})

\* the readings of the clock, in the unit of the exp claim
MaxTime == 2
DeviceNames == {"laptop"}

\* what the JWKS endpoint may serve
FetchedDocuments == {"jwks-net"}

\* the record of a finished operation: the session before it, its RPCs, its error
Done(op, pre, o) ==
    IF Raised(o)
    THEN [op |-> op, pre |-> pre, calls |-> o.calls, raised |-> o.raised]
    ELSE [op |-> op, pre |-> pre, calls |-> o.calls]

Init ==
    /\ \E client_secret \in ClientSecrets :
          cognito = Cognito(POOL_ID, CLIENT_ID, USERNAME, None, None, None,
                            client_secret, None, None, None)
    /\ env \in {None, "jwks-env"}
    /\ last = NoOperation
    /\ aws = AWSSRP(USERNAME, "pw", POOL_ID, CLIENT_ID, None, None, None, None)
    /\ run = NoRun
    /\ peer = [username |-> USERNAME]
    /\ before = NoOperation
    /\ threads = <<>>
    /\ log = <<>>

Authenticate ==
    /\ last = NoOperation
    /\ \E password \in Passwords, fetched \in FetchedDocuments :
          \E o \in authenticate(cognito, CognitoClient, password, fetched) :
             /\ cognito' = o.self
             /\ last' = Done("authenticate", cognito, o)
    /\ UNCHANGED <<aws, run, env, peer, before, threads, log>>

AuthenticateWithMfaToken ==
    /\ last = NoOperation
    /\ \E password \in Passwords, mfaToken \in MfaTokens, fetched \in FetchedDocuments :
          \E o \in authenticate_with_mfa_token(cognito, CognitoClient, password, mfaToken,
                                               fetched) :
             /\ cognito' = o.self
             /\ last' = Done("authenticate_with_mfa_token", cognito, o)
    /\ UNCHANGED <<aws, run, env, peer, before, threads, log>>

AdminAuthenticate ==
    /\ last = NoOperation
    /\ \E password \in Passwords, fetched \in FetchedDocuments :
          \E o \in admin_authenticate(cognito, CognitoClient, password, fetched) :
             /\ cognito' = o.self
             /\ last' = Done("admin_authenticate", cognito, o)
    /\ UNCHANGED <<aws, run, env, peer, before, threads, log>>

NewPasswordChallenge ==
    /\ last = NoOperation
    /\ \E password \in Passwords, new_password \in NewPasswords :
          \E o \in new_password_challenge(cognito, CognitoClient, password, new_password) :
             /\ cognito' = o.self
             /\ last' = Done("new_password_challenge", cognito, o)
    /\ UNCHANGED <<aws, run, env, peer, before, threads, log>>

RenewAccessToken ==
    /\ last = NoOperation
    /\ \E o \in renew_access_token(cognito, CognitoClient) :
          /\ cognito' = o.self
          /\ last' = Done("renew_access_token", cognito, o)
    /\ UNCHANGED <<aws, run, env, peer, before, threads, log>>

CheckToken ==
    /\ last = NoOperation
    /\ \E renew \in BOOLEAN, now \in 0..MaxTime :
          \E o \in check_token(cognito, CognitoClient, renew, now) :
             /\ cognito' = o.self
             /\ last' = Update(Done("check_token", cognito, o),
                               IF Raised(o) THEN [renew |-> renew, now |-> now]
                               ELSE [renew |-> renew, now |-> now, expired |-> o.value])
    /\ UNCHANGED <<aws, run, env, peer, before, threads, log>>

RegisterDevice ==
    /\ last = NoOperation
    /\ \E device_name \in DeviceNames, remember_device \in BOOLEAN :
          \E o \in register_device(cognito, CognitoClient, device_name, remember_device) :
             /\ cognito' = o.self
             /\ last' = Done("register_device", cognito, o)
    /\ UNCHANGED <<aws, run, env, peer, before, threads, log>>

Logout ==
    /\ last = NoOperation
    /\ \E o \in logout(cognito, CognitoClient) :
          /\ cognito' = o.self
          /\ last' = Done("logout", cognito, o)
    /\ UNCHANGED <<aws, run, env, peer, before, threads, log>>

\* the operation has returned or raised and the caller carries on
Returned ==
    /\ last # NoOperation
    /\ last' = NoOperation
    /\ UNCHANGED <<aws, run, cognito, env, peer, before, threads, log>>

Next ==
    \/ Returned
    \/ Authenticate
    \/ AuthenticateWithMfaToken
    \/ AdminAuthenticate
    \/ NewPasswordChallenge
    \/ RenewAccessToken
    \/ CheckToken
    \/ RegisterDevice
    \/ Logout

Spec == Init /\ [][Next]_vars

(***************************************************************************)
(* SpecAccount: a session built from stored tokens and driven through the  *)
(* operations that need an access token                                    *)
(***************************************************************************)
Attributes == {"email"}
ConfirmationCodes == {"123456"}

InitAccount ==
    /\ \E id_token \in {None, "id-1"}, refresh_token \in {None, "refresh-1"},
          access_token \in {None, "access-1"}, client_secret \in ClientSecrets,
          device_key \in {None, "dk"} :
          cognito = Cognito(POOL_ID, CLIENT_ID, USERNAME, id_token, refresh_token,
                            access_token, client_secret, device_key, None, None)
    /\ env = None
    /\ last = NoOperation
    /\ aws = AWSSRP(USERNAME, "pw", POOL_ID, CLIENT_ID, None, None, None, None)
    /\ run = NoRun
    /\ peer = [username |-> USERNAME]
    /\ before = NoOperation
    /\ threads = <<>>
    /\ log = <<>>

SendVerification ==
    /\ last = NoOperation
    /\ \E attribute \in Attributes, now \in 0..MaxTime :
          \E o \in send_verification(cognito, CognitoClient, attribute, now) :
             /\ cognito' = o.self
             /\ last' = Update(Done("send_verification", cognito, o), [now |-> now])
    /\ UNCHANGED <<aws, run, env, peer, before, threads, log>>

ValidateVerification ==
    /\ last = NoOperation
    /\ \E confirmation_code \in ConfirmationCodes, attribute \in Attributes,
          now \in 0..MaxTime :
          \E o \in validate_verification(cognito, CognitoClient, confirmation_code,
                                         attribute, now) :
             /\ cognito' = o.self
             /\ last' = Update(Done("validate_verification", cognito, o), [now |-> now])
    /\ UNCHANGED <<aws, run, env, peer, before, threads, log>>

ChangePassword ==
    /\ last = NoOperation
    /\ \E previous_password \in Passwords, proposed_password \in NewPasswords,
          now \in 0..MaxTime :
          \E o \in change_password(cognito, CognitoClient, previous_password,
                                   proposed_password, now) :
             /\ cognito' = o.self
             /\ last' = Update(Done("change_password", cognito, o), [now |-> now])
    /\ UNCHANGED <<aws, run, env, peer, before, threads, log>>

NextAccount ==
    \/ Returned
    \/ CheckToken
    \/ RenewAccessToken
    \/ SendVerification
    \/ ValidateVerification
    \/ ChangePassword
    \/ Logout

SpecAccount == InitAccount /\ [][NextAccount]_vars

(***************************************************************************)
(* SpecMath: the integer functions of aws_srp.py applied to drawn inputs   *)
(***************************************************************************)
MaxLong == 33000
MaxRandom == 60

\* the moduli calculate_a is applied to: the safe primes 23 and 11, and 8, a modulus
\* that a power of g reaches 0 in, on which the safety check has something to reject
Moduli == {n_hex, <<"b">>, <<"8">>}

MaxHash == 3
MaxServerB == 30

\* the inputs drawn for one application: an integer for pad_hex, a modulus and the
\* number that get_random(128) returns for AWSSRP.__init__, or the numbers a key
\* derivation works on (the hash values k, u_value, x_value, the session's a and the
\* server's B, which the code does not reduce)
KeyInputs ==
    [k : 0..MaxHash, u_value : 0..MaxHash, x_value : 0..MaxHash,
     small_a_value : 0..(hex_to_long(n_hex) - 1), server_b_value : 0..MaxServerB]

MathInputs ==
    [long_int : 0..MaxLong] \cup [n : Moduli, random_long_int : 0..MaxRandom]
    \cup KeyInputs

InitMath ==
    /\ \E input \in MathInputs : run = [op |-> "none", calls |-> <<>>, input |-> input]
    /\ aws = AWSSRP(USERNAME, "pw", POOL_ID, CLIENT_ID, None, None, None, None)
    /\ cognito = [username |-> USERNAME]
    /\ env = None
    /\ last = NoOperation
    /\ peer = [username |-> USERNAME]
    /\ before = NoOperation
    /\ threads = <<>>
    /\ log = <<>>

PadHex ==
    /\ run.op = "none"
    /\ "long_int" \in DOMAIN run.input
    /\ run' = [op |-> "pad_hex", arg |-> run.input.long_int,
               value |-> pad_hex(run.input.long_int)]
    /\ UNCHANGED <<aws, cognito, env, last, peer, before, threads, log>>

\* the numeric part of AWSSRP.__init__ for one draw of get_random(128)
NewSrpNumbers ==
    /\ run.op = "none"
    /\ "n" \in DOMAIN run.input
    /\ run' = Update(SrpNumbers(run.input.n, run.input.random_long_int),
                     [op |-> "__init__", arg |-> run.input.random_long_int])
    /\ UNCHANGED <<aws, cognito, env, last, peer, before, threads, log>>

\* the S of one key derivation on the drawn numbers, in the group of n_hex
DerivedS(op) ==
    Update(s_value(hex_to_long(g_hex), run.input.k, hex_to_long(n_hex),
                   run.input.small_a_value, run.input.u_value, run.input.x_value,
                   run.input.server_b_value),
           [op |-> op, arg |-> run.input, big_n |-> hex_to_long(n_hex),
            g |-> hex_to_long(g_hex)])

GetPasswordAuthenticationKey ==
    /\ run.op = "none"
    /\ "server_b_value" \in DOMAIN run.input
    /\ run' = DerivedS("get_password_authentication_key")
    /\ UNCHANGED <<aws, cognito, env, last, peer, before, threads, log>>

GetDeviceAuthenticationKey ==
    /\ run.op = "none"
    /\ "server_b_value" \in DOMAIN run.input
    /\ run' = DerivedS("get_device_authentication_key")
    /\ UNCHANGED <<aws, cognito, env, last, peer, before, threads, log>>

NextMath ==
    \/ PadHex
    \/ NewSrpNumbers
    \/ GetPasswordAuthenticationKey
    \/ GetDeviceAuthenticationKey

SpecMath == InitMath /\ [][NextMath]_vars

(***************************************************************************)
(* SpecVerify: two sessions of one pool in one process, each verifying     *)
(* tokens through verify_token                                             *)
(***************************************************************************)
\* the (attribute, token_use) pairs verify_token is called with
TokenUses == {<<"id_token", "id">>, <<"access_token", "access">>}

\* the tokens handed to verify_token: a good ID token, a good access token, an ID
\* token with a forged signature and an ID token signed with a key the pool never
\* published
PresentedTokens == {"id-1", "access-1", "id-forged", "id-k9"}

\* what the JWKS endpoint may serve, the empty JSON object included
ServedDocuments == {"jwks-net", "{}"}

\* the record of a finished verify_token call on session `name`
Verified(name, pre, token, use, r) ==
    LET call == [op |-> "verify_token", session |-> name, pre |-> pre, token |-> token,
                 id_name |-> use[1], token_use |-> use[2], gets |-> r.gets]
    IN  IF Raised(r) THEN Update(call, [raised |-> r.raised])
        ELSE Update(call, [value |-> r.value])

\* what is kept of a verify_token call once the next one has finished
Earlier(call) ==
    IF call = NoOperation THEN NoOperation
    ELSE IF Raised(call)
    THEN [session |-> call.session, token |-> call.token, token_use |-> call.token_use,
          raised |-> call.raised.type]
    ELSE [session |-> call.session, token |-> call.token, token_use |-> call.token_use,
          value |-> call.value]

InitVerify ==
    /\ cognito = Cognito(POOL_ID, CLIENT_ID, USERNAME, None, None, None, None,
                         None, None, None)
    /\ peer = Cognito(POOL_ID, CLIENT_ID, USERNAME, None, None, None, None,
                      None, None, None)
    /\ env \in {None, "jwks-env"}
    /\ last = NoOperation
    /\ before = NoOperation
    /\ threads = <<>>
    /\ log = <<>>
    /\ aws = AWSSRP(USERNAME, "pw", POOL_ID, CLIENT_ID, None, None, None, None)
    /\ run = NoRun

VerifyToken ==
    /\ \E token \in PresentedTokens, use \in TokenUses, fetched \in ServedDocuments :
          LET r == verify_token(cognito, token, use[1], use[2], fetched) IN
          /\ cognito' = r.self
          /\ last' = Verified("cognito", cognito, token, use, r)
    /\ before' = Earlier(last)
    /\ UNCHANGED <<aws, run, env, peer, threads, log>>

PeerVerifyToken ==
    /\ \E token \in PresentedTokens, use \in TokenUses, fetched \in ServedDocuments :
          LET r == verify_token(peer, token, use[1], use[2], fetched) IN
          /\ peer' = r.self
          /\ last' = Verified("peer", peer, token, use, r)
    /\ before' = Earlier(last)
    /\ UNCHANGED <<aws, run, env, cognito, threads, log>>

NextVerify ==
    \/ VerifyToken
    \/ PeerVerifyToken

SpecVerify == InitVerify /\ [][NextVerify]_vars

(***************************************************************************)
(* SpecThreads: several callers on one session; each runs check_token or   *)
(* verify_token once, and control may pass from one caller to another      *)
(* wherever a call waits for the network.  The session takes no lock.      *)
(***************************************************************************)
Callers == {"t1", "t2"}

ThreadsResults ==
    {AuthenticationResult("id-1", "access-1", "refresh-1", "Bearer"),
     AuthenticationResult("id-k9", "access-k9", "refresh-2", "Bearer")}

ThreadsClient == Client(ThreadsResults, {"u-123"}, {"S1"})

Idle == [pc |-> "idle"]

\* caller t has returned from, or raised out of, its call
Finish(t, op, r) ==
    IF Raised(r) THEN [pc |-> "done", op |-> op, raised |-> r.raised]
    ELSE [pc |-> "done", op |-> op, value |-> r.value]

\* the record of a request, or of a write to the JWKS cache
Sent(t, what, kwargs) == [thread |-> t, what |-> what, kwargs |-> kwargs]
Wrote(t, document) == [thread |-> t, what |-> "pool_jwk", document |-> document]

InitThreads ==
    /\ cognito = Cognito(POOL_ID, CLIENT_ID, USERNAME, "id-1", "refresh-1", "access-1",
                         None, None, None, None)
    /\ env \in {None, "jwks-env"}
    /\ threads = [t \in Callers |-> Idle]
    /\ log = <<>>
    /\ last = NoOperation
    /\ aws = AWSSRP(USERNAME, "pw", POOL_ID, CLIENT_ID, None, None, None, None)
    /\ run = NoRun
    /\ peer = [username |-> USERNAME]
    /\ before = NoOperation

\* check_token up to the point where it has looked at the token and the clock
ThreadCheckToken(t) ==
    /\ threads[t] = Idle
    /\ \E renew \in BOOLEAN, now \in 0..MaxTime :
          \E o \in check_token(cognito, ThreadsClient, renew, now) :
             threads' = [threads EXCEPT ![t] =
                            IF o.calls = <<>> THEN Finish(t, "check_token", o)
                            ELSE [pc |-> "expired", op |-> "check_token", now |-> now]]
    /\ UNCHANGED <<aws, run, cognito, env, last, peer, before, log>>

\* renew_access_token up to the point where initiate_auth is on its way
ThreadSendRefresh(t) ==
    /\ threads[t].pc = "expired"
    /\ LET kwargs == renew_access_token_kwargs(cognito) IN
       /\ threads' = [threads EXCEPT ![t] =
                         [pc |-> "refreshing", op |-> "check_token", kwargs |-> kwargs]]
       /\ log' = Append(log, Sent(t, "initiate_auth", kwargs))
    /\ UNCHANGED <<aws, run, cognito, env, last, peer, before>>

\* initiate_auth answers and renew_access_token runs to its end
ThreadRefreshed(t) ==
    /\ threads[t].pc = "refreshing"
    /\ LET kwargs == threads[t].kwargs IN
       \E refresh_response \in Validated({kwargs["AuthParameters"]["REFRESH_TOKEN"]},
                                         ThreadsClient.refresh_token_auth) :
          LET r == renew_access_token_tokens(
                       cognito, <<Call("initiate_auth", kwargs, refresh_response)>>,
                       refresh_response)
          IN  /\ cognito' = r.self
              /\ threads' = [threads EXCEPT ![t] =
                                Finish(t, "check_token",
                                       IF Raised(r) THEN r ELSE Update(r, [value |-> TRUE]))]
    /\ UNCHANGED <<aws, run, env, last, peer, before, log>>

\* verify_token up to its end, or up to the point where get_keys has asked the JWKS
\* endpoint; `saw` is the cache as the caller found it
ThreadVerifyToken(t) ==
    /\ threads[t] = Idle
    /\ \E token \in PresentedTokens, use \in TokenUses :
          LET r == verify_token(cognito, token, use[1], use[2], "{}") IN
          IF r.gets = 0
          THEN /\ cognito' = r.self
               /\ threads' = [threads EXCEPT ![t] =
                                 Update(Finish(t, "verify_token", r),
                                        [saw |-> cognito.pool_jwk])]
               /\ log' = IF r.self.pool_jwk # cognito.pool_jwk
                         THEN Append(log, Wrote(t, r.self.pool_jwk))
                         ELSE log
          ELSE /\ cognito' = cognito
               /\ threads' = [threads EXCEPT ![t] =
                                 [pc |-> "fetching", op |-> "verify_token",
                                  token |-> token, use |-> use,
                                  saw |-> cognito.pool_jwk]]
               /\ log' = Append(log, Sent(t, "requests.get", [url |-> "jwks.json"]))
    /\ UNCHANGED <<aws, run, env, last, peer, before>>

\* the JWKS endpoint answers: get_keys stores the document and verify_token runs to
\* its end with it
ThreadFetched(t) ==
    /\ threads[t].pc = "fetching"
    /\ \E fetched \in ServedDocuments :
          LET r == verify_token([cognito EXCEPT !.pool_jwk = None], threads[t].token,
                                threads[t].use[1], threads[t].use[2], fetched)
          IN  /\ cognito' = r.self
              /\ threads' = [threads EXCEPT ![t] =
                                Update(Finish(t, "verify_token", r),
                                       [saw |-> threads[t].saw])]
              /\ log' = Append(log, Wrote(t, fetched))
    /\ UNCHANGED <<aws, run, env, last, peer, before>>

NextThreads ==
    \E t \in Callers :
       \/ ThreadCheckToken(t)
       \/ ThreadSendRefresh(t)
       \/ ThreadRefreshed(t)
       \/ ThreadVerifyToken(t)
       \/ ThreadFetched(t)

SpecThreads == InitThreads /\ [][NextThreads]_vars

(***************************************************************************)
(* Properties of the Cognito session (Spec)                                *)
(***************************************************************************)
TokenSlots(c) == <<c.id_token, c.access_token, c.refresh_token, c.token_type>>

\* `token` passes the checks of verify_token for `token_use` against the key set `jwks`
PassesVerification(token, token_use, jwks) ==
    /\ token \in {j.token : j \in Jwts}
    /\ Jwt(token).token_use = token_use
    /\ Truthy(jwks)
    /\ \E key \in KeyList(jwks) : key.kid = Jwt(token).kid /\ Jwt(token).signed_by = key.kid

\* the response to the PASSWORD_VERIFIER answer of the operation that just finished
LastVerifierAnswered ==
    /\ last.op \in {"authenticate", "authenticate_with_mfa_token", "new_password_challenge"}
    /\ Len(last.calls) >= 2
    /\ ~Failed(last.calls[2].response)
LastVerifierResponse == last.calls[2].response

\* C1: every token that authenticate, authenticate_with_mfa_token, admin_authenticate
\* or new_password_challenge placed in id_token or access_token passed verify_token
\* (token_use and signature against the JWKS).
C1_StoredTokensPassedVerification ==
    last.op \in {"authenticate", "authenticate_with_mfa_token", "admin_authenticate",
                 "new_password_challenge"}
    => /\ cognito.id_token # last.pre.id_token
           => PassesVerification(cognito.id_token, "id", cognito.pool_jwk)
       /\ cognito.access_token # last.pre.access_token
           => PassesVerification(cognito.access_token, "access", cognito.pool_jwk)

\* C2: when verification of the returned ID token or access token fails during
\* authenticate, authenticate_with_mfa_token or admin_authenticate, id_token,
\* access_token, refresh_token and token_type keep the values they had before.
C2_FailedVerificationBindsNothing ==
    (/\ last.op \in {"authenticate", "authenticate_with_mfa_token", "admin_authenticate"}
     /\ Raised(last)
     /\ last.raised.type = "TokenVerificationException")
    => TokenSlots(cognito) = TokenSlots(last.pre)

PasswordOnlyChallenged(name) ==
    /\ last.op = "authenticate"
    /\ LastVerifierAnswered
    /\ Get(LastVerifierResponse, "ChallengeName") = name

\* the attempt ended with an error of type `type` right after the PASSWORD_VERIFIER
\* answer and left the token slots alone
EndedWith(type) ==
    /\ Raised(last)
    /\ last.raised.type = type
    /\ Len(last.calls) = 2
    /\ TokenSlots(cognito) = TokenSlots(last.pre)

\* C5: on the password-only entry point a PASSWORD_VERIFIER response with
\* ChallengeName SOFTWARE_TOKEN_MFA ends the attempt with MFATokenRequiredException:
\* no further RPC is issued and no token slot changes.
C5_MfaOnPasswordOnlyRaises ==
    PasswordOnlyChallenged(SOFTWARE_TOKEN_MFA_CHALLENGE)
        => EndedWith("MFATokenRequiredException")

C5_Witness ==
    /\ PasswordOnlyChallenged(SOFTWARE_TOKEN_MFA_CHALLENGE)
    /\ Raised(last)
    /\ cognito.access_token = "access-1"
    /\ cognito.refresh_token = "refresh-2"

\* C6: on the password-only entry point a PASSWORD_VERIFIER response with
\* ChallengeName NEW_PASSWORD_REQUIRED ends the attempt with
\* ForceChangePasswordException: no NEW_PASSWORD_REQUIRED answer is sent and no
\* token slot changes.
C6_NewPasswordOnPasswordOnlyRaises ==
    PasswordOnlyChallenged(NEW_PASSWORD_REQUIRED_CHALLENGE)
        => /\ EndedWith("ForceChangePasswordException")
           /\ \A i \in 1..Len(last.calls) :
                 last.calls[i].rpc = "respond_to_auth_challenge"
                     => last.calls[i].kwargs.ChallengeName
                            # NEW_PASSWORD_REQUIRED_CHALLENGE

C6_Witness ==
    /\ PasswordOnlyChallenged(NEW_PASSWORD_REQUIRED_CHALLENGE)
    /\ Raised(last)
    /\ cognito.id_token = "id-1"
    /\ cognito.token_type = "Bearer"

(***************************************************************************)
(* Properties of the AWSSRP entry points (SpecSrp)                         *)
(***************************************************************************)
NCalls == Len(run.calls)
\* the response to initiate_auth and the response to the PASSWORD_VERIFIER answer
InitiateResponse == run.calls[1].response
VerifierResponse == run.calls[2].response

IsVerifierAnswer(call) ==
    /\ call.rpc = "respond_to_auth_challenge"
    /\ call.kwargs.ChallengeName = PASSWORD_VERIFIER_CHALLENGE

VerifierAnswered == NCalls >= 2 /\ ~Failed(VerifierResponse)

Carries(exc, v) == \E i \in DOMAIN exc.args : exc.args[i] = v

\* C3: on every SRP entry point the USERNAME of the PASSWORD_VERIFIER answer is
\* the USER_ID_FOR_SRP of the ChallengeParameters returned by initiate_auth,
\* whatever user name the caller supplied.
C3_VerifierUsernameIsUserIdForSrp ==
    \A i \in 1..NCalls :
        IsVerifierAnswer(run.calls[i]) =>
            run.calls[i].kwargs.ChallengeResponses.USERNAME
                = InitiateResponse.ChallengeParameters.USER_ID_FOR_SRP

C3_Witness ==
    /\ run.op = "set_new_password_challenge"
    /\ NCalls >= 2
    /\ IsVerifierAnswer(run.calls[2])
    /\ InitiateResponse.ChallengeParameters.USER_ID_FOR_SRP # aws.username

MfaChallenged ==
    /\ run.op = "authenticate_user_with_mfa_token"
    /\ VerifierAnswered
    /\ Get(VerifierResponse, "ChallengeName") = SOFTWARE_TOKEN_MFA_CHALLENGE

\* the SOFTWARE_TOKEN_MFA answer is the third call and carries `username`, the
\* caller's MFA code and the Session of the PASSWORD_VERIFIER response
MfaAnswerCarries(username) ==
    /\ NCalls = 3
    /\ run.calls[3].rpc = "respond_to_auth_challenge"
    /\ run.calls[3].kwargs.ChallengeName = SOFTWARE_TOKEN_MFA_CHALLENGE
    /\ run.calls[3].kwargs.ChallengeResponses.USERNAME = username
    /\ run.calls[3].kwargs.ChallengeResponses.SOFTWARE_TOKEN_MFA_CODE = run.arg
    /\ run.calls[3].kwargs.Session = VerifierResponse.Session

\* C4 as stated: on the MFA entry point the SOFTWARE_TOKEN_MFA answer carries the
\* USERNAME of the ChallengeParameters of the SOFTWARE_TOKEN_MFA challenge (the
\* PASSWORD_VERIFIER response), the caller's MFA code and that response's Session.
C4_MfaUsernameOfMfaChallenge ==
    MfaChallenged => MfaAnswerCarries(VerifierResponse.ChallengeParameters.USERNAME)

\* C4 amended: the SOFTWARE_TOKEN_MFA answer carries the USERNAME of the
\* ChallengeParameters that initiate_auth returned with the PASSWORD_VERIFIER
\* challenge, the caller's MFA code and the Session of the PASSWORD_VERIFIER response.
C4_MfaUsernameOfInitialChallenge ==
    MfaChallenged => MfaAnswerCarries(InitiateResponse.ChallengeParameters.USERNAME)

C4_Witness ==
    /\ MfaChallenged
    /\ NCalls = 3
    /\ InitiateResponse.ChallengeParameters.USERNAME # aws.username
    /\ InitiateResponse.ChallengeParameters.USERNAME
           # VerifierResponse.ChallengeParameters.USERNAME
    /\ run.calls[3].kwargs.ChallengeResponses.USERNAME = "u-123"

\* C7: MFATokenRequiredException carries the Session and the echoed USERNAME of the
\* PASSWORD_VERIFIER response, ForceChangePasswordException carries its Session.
C7_ErrorsCarryResumeContext ==
    /\ (Raised(run) /\ run.raised.type = "MFATokenRequiredException") =>
           /\ Carries(run.raised, VerifierResponse.Session)
           /\ Carries(run.raised, VerifierResponse.ChallengeParameters.USERNAME)
    /\ (Raised(run) /\ run.raised.type = "ForceChangePasswordException") =>
           Carries(run.raised, VerifierResponse.Session)

\* C8: on every SRP entry point, when initiate_auth returns a ChallengeName other
\* than PASSWORD_VERIFIER the attempt fails with the unsupported-challenge error and
\* issues no respond_to_auth_challenge call.
C8_UnsupportedFirstChallenge ==
    (/\ NCalls >= 1
     /\ ~Failed(InitiateResponse)
     /\ "ChallengeName" \in DOMAIN InitiateResponse
     /\ InitiateResponse.ChallengeName # PASSWORD_VERIFIER_CHALLENGE)
    => /\ Raised(run)
       /\ run.raised.type = "NotImplementedError"
       /\ NCalls = 1

\* C9: when the PASSWORD_VERIFIER response has no AuthenticationResult and its
\* ChallengeName is none of DEVICE_SRP_AUTH, SOFTWARE_TOKEN_MFA, NEW_PASSWORD_REQUIRED,
\* the attempt fails with the unsupported-challenge error.
C9_UnsupportedSecondChallenge ==
    (/\ VerifierAnswered
     /\ "AuthenticationResult" \notin DOMAIN VerifierResponse
     /\ Get(VerifierResponse, "ChallengeName") \notin
            {DEVICE_SRP_AUTH, SOFTWARE_TOKEN_MFA_CHALLENGE, NEW_PASSWORD_REQUIRED_CHALLENGE})
    => /\ Raised(run)
       /\ run.raised.type = "NotImplementedError"

\* C10: on every SRP entry point a PASSWORD_VERIFIER response with an
\* AuthenticationResult and no ChallengeName is the result of the attempt; the
\* attempt does not end in an error.
C10_TokensEndTheAttempt ==
    (/\ VerifierAnswered
     /\ "AuthenticationResult" \in DOMAIN VerifierResponse
     /\ "ChallengeName" \notin DOMAIN VerifierResponse)
    => /\ ~Raised(run)
       /\ run.value = VerifierResponse


(***************************************************************************)
(* Properties of token refresh and device registration (Spec)              *)
(***************************************************************************)
\* the operation that just finished issued the refresh RPC
RefreshIssued ==
    /\ last.op \in {"renew_access_token", "check_token"}
    /\ Len(last.calls) = 1
RefreshCall == last.calls[1]

\* the refresh RPC returned tokens with HTTP status 200
RefreshSucceeded ==
    /\ RefreshIssued
    /\ ~Raised(last)
    /\ RefreshCall.response["ResponseMetadata"]["HTTPStatusCode"] = 200

\* C11: the refresh request is initiate_auth with AuthFlow REFRESH_TOKEN, carries the
\* session's current refresh token, and carries DEVICE_KEY exactly when the session has
\* a device key; a successful refresh replaces access_token and id_token by those of the
\* response and leaves refresh_token as it was.
C11_RefreshReplacesAccessAndIdOnly ==
    RefreshIssued =>
       LET p == RefreshCall.kwargs["AuthParameters"]
           result == RefreshCall.response["AuthenticationResult"]
       IN  /\ RefreshCall.rpc = "initiate_auth"
           /\ RefreshCall.kwargs["AuthFlow"] = "REFRESH_TOKEN"
           /\ p["REFRESH_TOKEN"] = last.pre.refresh_token
           /\ ("DEVICE_KEY" \in DOMAIN p) <=> (last.pre.device_key # None)
           /\ "DEVICE_KEY" \in DOMAIN p => p["DEVICE_KEY"] = last.pre.device_key
           /\ RefreshSucceeded =>
                 /\ cognito.access_token = result["AccessToken"]
                 /\ cognito.id_token = result["IdToken"]
                 /\ cognito.refresh_token = last.pre.refresh_token

\* a successful refresh of a session with a device key that changed both tokens
C11_Witness ==
    /\ RefreshSucceeded
    /\ last.op = "renew_access_token"
    /\ last.pre.device_key # None
    /\ cognito.access_token # last.pre.access_token
    /\ cognito.id_token # last.pre.id_token
    /\ cognito.refresh_token # None

\* check_token ran on a session that holds an access token
TokenChecked == last.op = "check_token" /\ last.pre.access_token # None

\* C12: check_token(renew) issues the refresh RPC exactly when the exp claim of the
\* access token is at or before the clock reading (exp <= now) and renew is true; in
\* particular at exp = now the token counts as expired; with renew false or exp > now
\* it issues no RPC.
C12_RefreshIffExpired ==
    TokenChecked =>
       LET exp == get_unverified_claims(last.pre.access_token).exp IN
       /\ (Len(last.calls) > 0) <=> (exp <= last.now /\ last.renew)
       /\ Len(last.calls) > 0 => RefreshIssued
       /\ ~Raised(last) => (last.expired <=> exp <= last.now)

\* register_device was turned away at the gate: the registration-disallowed error,
\* no RPC, the session as it was
RegistrationDisallowed ==
    /\ Raised(last)
    /\ last.raised.type = "ValueError"
    /\ last.calls = <<>>
    /\ cognito = last.pre

RegistrationPermitted(c) == c.device_group_key # None /\ c.device_password = None

SomeRpcFailed == \E i \in 1..Len(last.calls) : Failed(last.calls[i].response)

\* no operation clears or replaces a device password the session holds
DevicePasswordKept ==
    (last # NoOperation /\ last.pre.device_password # None)
    => cognito.device_password = last.pre.device_password

SrpAuthenticated ==
    /\ last.op \in {"authenticate", "authenticate_with_mfa_token", "new_password_challenge"}
    /\ ~Raised(last)
FinalResult == last.calls[Len(last.calls)].response["AuthenticationResult"]

\* C14: when authenticate, authenticate_with_mfa_token or new_password_challenge reaches
\* AUTHENTICATED on a response that carries NewDeviceMetadata, device_key and
\* device_group_key are the DeviceKey and DeviceGroupKey of that metadata; when the
\* response carries none, both are what they were before the operation.
C14_DeviceIdentityFromNewDeviceMetadata ==
    SrpAuthenticated =>
       IF "NewDeviceMetadata" \in DOMAIN FinalResult
       THEN /\ cognito.device_key = FinalResult["NewDeviceMetadata"]["DeviceKey"]
            /\ cognito.device_group_key = FinalResult["NewDeviceMetadata"]["DeviceGroupKey"]
       ELSE /\ cognito.device_key = last.pre.device_key
            /\ cognito.device_group_key = last.pre.device_group_key

\* a session without device identity authenticated and was handed NewDeviceMetadata
C14_Witness ==
    /\ SrpAuthenticated
    /\ "NewDeviceMetadata" \in DOMAIN FinalResult
    /\ last.pre.device_key = None
    /\ last.pre.device_group_key = None
    /\ cognito.device_key # None
    /\ cognito.device_group_key # None

(***************************************************************************)
(* Properties of token verification and the JWKS cache (SpecVerify)        *)
(***************************************************************************)
VerifyDone == last.op = "verify_token"
\* the session the last verify_token ran on, as it is now, and the other one
Verifier == IF last.session = "cognito" THEN cognito ELSE peer
OtherSession == IF last.session = "cognito" THEN peer ELSE cognito

\* the token_use check passed, so verify_token went on to look up the key
KeysConsulted == get_unverified_claims(last.token).token_use = last.token_use

SlotKept == Verifier[last.id_name] = last.pre[last.id_name]

\* C15: once the JWKS cache of a session is populated, from the override or from the
\* network and whatever the document, no later verification fetches again and the
\* cached key set never changes.
C15_PopulatedCacheIsFinal ==
    (VerifyDone /\ last.pre.pool_jwk # None)
    => /\ last.gets = 0
       /\ Verifier.pool_jwk = last.pre.pool_jwk

\* C16: the JWKS cache is shared by the sessions of a pool: when one session has
\* populated it, the first verification of another session uses the cached keys
\* and performs no fetch.
C16_CacheSharedAcrossSessions ==
    (VerifyDone /\ KeysConsulted /\ last.pre.pool_jwk = None
        /\ Truthy(OtherSession.pool_jwk))
    => /\ last.gets = 0
       /\ Verifier.pool_jwk = OtherSession.pool_jwk

\* C17: when the cache is empty and the COGNITO_JWKS override is present, the cache is
\* populated from the override and nothing is fetched; a fetch happens only when the
\* override is absent.
C17_OverrideSupersedesFetch ==
    VerifyDone =>
       /\ last.gets > 0 => env = None
       /\ (KeysConsulted /\ ~Truthy(last.pre.pool_jwk) /\ env # None)
          => Verifier.pool_jwk = env /\ last.gets = 0

\* the first key lookup of a session with the override set
C17_Witness ==
    /\ VerifyDone
    /\ KeysConsulted
    /\ last.pre.pool_jwk = None
    /\ env # None
    /\ Verifier.pool_jwk = env

\* the last two verify_token calls were given the same JWT on the same session
VerifiedTwice ==
    /\ VerifyDone
    /\ before # NoOperation
    /\ before.session = last.session
    /\ before.token = last.token
    /\ before.token_use = last.token_use

\* C18: verifying the same JWT twice on the same session gives the same result both
\* times (the same claims returned), and the second verification leaves the JWKS cache
\* as it found it.
C18_VerificationIdempotent ==
    VerifiedTwice
    => /\ Raised(last) <=> Raised(before)
       /\ ~Raised(last) /\ ~Raised(before) => last.value = before.value
       /\ Verifier.pool_jwk = last.pre.pool_jwk

\* C19: verify_token raises TokenVerificationException whenever the token_use claim of
\* the token differs from the expected one, and the slot it was to fill keeps its value.
C19_TokenUseMismatchRejected ==
    (VerifyDone /\ ~KeysConsulted)
    => /\ Raised(last)
       /\ last.raised.type = "TokenVerificationException"
       /\ SlotKept
       /\ Verifier = last.pre

\* an access token presented as the ID token of a session that holds a verified one
C19_Witness ==
    /\ VerifyDone
    /\ ~KeysConsulted
    /\ last.token = "access-1"
    /\ last.id_name = "id_token"
    /\ last.pre.id_token = "id-1"
    /\ Raised(last)

\* the key set the last verify_token worked with has keys, none of them with the kid of
\* the token
KidUnknown ==
    /\ VerifyDone
    /\ KeysConsulted
    /\ "keys" \in DictKeys(Verifier.pool_jwk)
    /\ \A key \in KeyList(Verifier.pool_jwk) : key.kid # get_unverified_header(last.token).kid

\* C20: a token whose header kid matches no key of the cached JWKS is rejected with
\* TokenVerificationException, the error of every other verification failure, and is
\* not stored.
C20_UnknownKidRejected ==
    KidUnknown
    => /\ Raised(last)
       /\ last.raised.type = "TokenVerificationException"
       /\ SlotKept

(***************************************************************************)
(* Properties of logout (Spec)                                             *)
(***************************************************************************)
LoggedOut == last.op = "logout" /\ ~Raised(last)

\* C21: after a successful logout id_token, access_token, refresh_token and token_type
\* are all None, whatever authentications and refreshes the session went through
\* before.
C21_LogoutClearsTokens ==
    LoggedOut => TokenSlots(cognito) = <<None, None, None, None>>

\* a logout of an authenticated session that held all four and a device key
C21_Witness ==
    /\ LoggedOut
    /\ last.pre.id_token # None
    /\ last.pre.access_token # None
    /\ last.pre.refresh_token # None
    /\ last.pre.token_type # None
    /\ last.pre.device_key # None

(***************************************************************************)
(* Properties of error propagation (Spec)                                  *)
(***************************************************************************)
AuthenticationAttempt ==
    last.op \in {"authenticate", "authenticate_with_mfa_token", "admin_authenticate",
                 "new_password_challenge"}

\* C22: nothing is retried.  An RPC that fails is the last RPC of its operation and its
\* error is what the caller gets; an authentication attempt whose token verification
\* fails raises with the token response as its last RPC; no request is sent twice; and
\* check_token issues an RPC only as the one refresh for renew = true on a token whose
\* exp is not after the clock.
C22_NothingIsRetried ==
    last # NoOperation =>
       /\ \A i \in 1..Len(last.calls) :
             /\ Failed(last.calls[i].response)
                => /\ i = Len(last.calls)
                   /\ Raised(last)
                   /\ last.raised = RpcError(last.calls[i].rpc)
             /\ (AuthenticationAttempt /\ "AuthenticationResult" \in DOMAIN last.calls[i].response)
                => i = Len(last.calls)
             /\ \A j \in 1..Len(last.calls) :
                   (i # j /\ last.calls[i].rpc = last.calls[j].rpc)
                   => last.calls[i].kwargs # last.calls[j].kwargs
       /\ last.op = "check_token" /\ last.calls # <<>>
          => /\ last.renew
             /\ get_unverified_claims(last.pre.access_token).exp <= last.now
             /\ RefreshIssued

\* an authentication attempt that was cut short by the failure of its second RPC
C22_Witness ==
    /\ AuthenticationAttempt
    /\ Len(last.calls) = 2
    /\ ~Failed(last.calls[1].response)
    /\ Failed(last.calls[2].response)
    /\ Raised(last)
    /\ cognito = last.pre

(***************************************************************************)
(* Properties of concurrent callers (SpecThreads)                          *)
(***************************************************************************)
Logged(what) == {i \in DOMAIN log : log[i].what = what}

\* every caller is in check_token, has seen the token expired, and none has had an
\* answer to its refresh yet
AllSawExpiredToken == \A t \in Callers : threads[t].pc \in {"expired", "refreshing"}

\* C23: when several callers run check_token(renew = true) concurrently on one session
\* and all of them see the expired access token, at most one REFRESH_TOKEN
\* initiate_auth is sent.
C23_SingleRefreshInFlight ==
    AllSawExpiredToken => Cardinality(Logged("initiate_auth")) <= 1

\* every caller is in, or through, a verify_token that found the JWKS cache empty
AllSawEmptyCache ==
    \A t \in Callers : /\ threads[t].pc \in {"fetching", "done"}
                       /\ threads[t].op = "verify_token"
                       /\ threads[t].saw = None

\* C24: when several verifications run concurrently against an empty JWKS cache, the
\* JWKS is fetched at most once and the cache is written at most once.
C24_OneShotJwksPopulation ==
    AllSawEmptyCache
    => /\ Cardinality(Logged("requests.get")) <= 1
       /\ Cardinality(Logged("pool_jwk")) <= 1

(***************************************************************************)
(* Properties of the operations that need an access token (SpecAccount)    *)
(***************************************************************************)
ChecksTokenFirst ==
    last.op \in {"check_token", "send_verification", "validate_verification",
                 "change_password"}

\* C25: check_token, send_verification, validate_verification and change_password
\* raise the access-token-required error when the session has no access token, send
\* nothing to the IDP and leave the session as it was.
C25_AccessTokenRequired ==
    (ChecksTokenFirst /\ last.pre.access_token = None)
    => /\ Raised(last)
       /\ last.raised = Exception("AttributeError", "Access Token Required to Check Token")
       /\ last.calls = <<>>
       /\ cognito = last.pre

\* change_password on a session that has a refresh token but no access token
C25_Witness ==
    /\ last.op = "change_password"
    /\ last.pre.access_token = None
    /\ last.pre.refresh_token # None
    /\ Raised(last)

(***************************************************************************)
(* Properties of SECRET_HASH (Spec)                                        *)
(***************************************************************************)
\* the requests that carry the client's credentials: every initiate_auth and every
\* PASSWORD_VERIFIER response, with the parameters each one sends
CarriesSecretHash(call) ==
    \/ call.rpc \in {"initiate_auth", "admin_initiate_auth"}
    \/ /\ call.rpc = "respond_to_auth_challenge"
       /\ call.kwargs.ChallengeName = PASSWORD_VERIFIER_CHALLENGE

SentParameters(call) ==
    IF call.rpc = "respond_to_auth_challenge"
    THEN call.kwargs.ChallengeResponses
    ELSE call.kwargs.AuthParameters

\* C26: every initiate_auth (USER_SRP_AUTH, ADMIN_NO_SRP_AUTH, REFRESH_TOKEN) and every
\* PASSWORD_VERIFIER response contains SECRET_HASH exactly when a client secret is
\* configured, and the hash is computed from the username the same request sends as
\* USERNAME.
C26_SecretHashOfSentUsername ==
    last # NoOperation =>
       \A i \in 1..Len(last.calls) :
          CarriesSecretHash(last.calls[i]) =>
             LET sent == SentParameters(last.calls[i]) IN
             /\ ("SECRET_HASH" \in DOMAIN sent) <=> (last.pre.client_secret # None)
             /\ ("SECRET_HASH" \in DOMAIN sent /\ "USERNAME" \in DOMAIN sent)
                => sent["SECRET_HASH"] = get_secret_hash(sent["USERNAME"], last.pre.client_id,
                                                         last.pre.client_secret)

(***************************************************************************)
(* Properties of the integer functions (SpecMath)                          *)
(***************************************************************************)
\* C27: a session whose construction completes has 0 <= a < N, A = g^a mod N and
\* A mod N # 0, for every drawn number, those that reduce to a = 0 included; and the
\* construction fails exactly when g^a mod N is 0.
C27_PublicValueNonZero ==
    run.op = "__init__" =>
       /\ run.small_a_value = run.arg % run.big_n
       /\ Raised(run) <=> ((run.g ^ run.small_a_value) % run.big_n = 0)
       /\ Raised(run) => run.raised = Exception("ValueError", "Safety check for A failed")
       /\ ~Raised(run)
          => /\ run.large_a_value = (run.g ^ run.small_a_value) % run.big_n
             /\ run.large_a_value % run.big_n # 0

\* a drawn number other than 0 that reduces to a = 0: the session is built with A = 1
C27_Witness ==
    /\ run.op = "__init__"
    /\ run.arg # 0
    /\ run.small_a_value = 0
    /\ ~Raised(run)
    /\ run.large_a_value = 1

\* C28: for every integer x >= 0, pad_hex(x) has an even number of digits, its first
\* digit is one of 0..7, and it denotes x.
C28_PadHexEvenAndPositive ==
    (run.op = "pad_hex" /\ run.arg >= 0)
    => /\ Len(run.value) % 2 = 0
       /\ run.value[1] \in {"0", "1", "2", "3", "4", "5", "6", "7"}
       /\ \A i \in 1..Len(run.value) : \E v \in 0..15 : HexDigits[v + 1] = run.value[i]
       /\ hex_to_long(run.value) = run.arg

\* a number of four digits whose first digit is 8 or more: two zeros are put in front
C28_Witness ==
    /\ run.op = "pad_hex"
    /\ run.arg >= 32768
    /\ Len(run.value) = 6
    /\ run.value[1] = "0"
    /\ run.value[2] = "0"

(***************************************************************************)
(* Properties of the challenges after PASSWORD_VERIFIER (SpecSrp)          *)
(***************************************************************************)
\* the PASSWORD_VERIFIER answer of the attempt came back with the challenge `name`
VerifierChallenged(name) ==
    /\ run.op # "none"
    /\ VerifierAnswered
    /\ IsVerifierAnswer(run.calls[2])
    /\ Get(VerifierResponse, "ChallengeName") = name

IsAnswerTo(call, name) ==
    /\ call.rpc = "respond_to_auth_challenge"
    /\ call.kwargs.ChallengeName = name

\* the two calls of the DEVICE state, as the third and the fourth call of the attempt
DeviceCallsInOrder ==
    /\ NCalls = 4
    /\ IsAnswerTo(run.calls[3], DEVICE_SRP_AUTH)
    /\ LET sent == run.calls[3].kwargs.ChallengeResponses IN
       /\ sent.SRP_A = run.calls[1].kwargs.AuthParameters.SRP_A
       /\ "DEVICE_KEY" \in DOMAIN sent
       /\ sent.DEVICE_KEY = aws.device_key
    /\ IsAnswerTo(run.calls[4], "DEVICE_PASSWORD_VERIFIER")
    /\ LET signed == run.calls[4].kwargs.ChallengeResponses IN
       /\ "PASSWORD_CLAIM_SIGNATURE" \in DOMAIN signed
       /\ "DEVICE_KEY" \in DOMAIN signed
       /\ signed.DEVICE_KEY = aws.device_key

\* C29: after a PASSWORD_VERIFIER response with ChallengeName DEVICE_SRP_AUTH the client
\* issues exactly two further respond_to_auth_challenge calls: DEVICE_SRP_AUTH with the
\* auth params (the SRP_A of initiate_auth, the session's DEVICE_KEY), then
\* DEVICE_PASSWORD_VERIFIER with the signed device response and DEVICE_KEY; the result of
\* the second call is the result of the attempt.
C29_DeviceBranchTwoCalls ==
    VerifierChallenged(DEVICE_SRP_AUTH)
    => /\ DeviceCallsInOrder
       /\ ~Raised(run)
       /\ run.value = run.calls[4].response

\* the positions of the answers to the challenge `name` among the calls of the attempt
AnswersTo(name) == {i \in 1..NCalls : IsAnswerTo(run.calls[i], name)}

\* the challenge `name` is answered by the entry point `op` only, at most once in an
\* attempt, and after a PASSWORD_VERIFIER answer of the same attempt has come back
AnsweredOnlyBy(name, op) ==
    /\ AnswersTo(name) # {} => run.op = op
    /\ Cardinality(AnswersTo(name)) <= 1
    /\ \A i \in AnswersTo(name) :
          \E j \in 1..(i - 1) :
             /\ IsVerifierAnswer(run.calls[j])
             /\ ~Failed(run.calls[j].response)

\* C30: a SOFTWARE_TOKEN_MFA response is sent only by authenticate_user_with_mfa_token
\* and a NEW_PASSWORD_REQUIRED response only by set_new_password_challenge, each at most
\* once in an attempt and only after a PASSWORD_VERIFIER response of that attempt;
\* authenticate_user sends neither.
C30_ResponsesByEntryPoint ==
    /\ AnsweredOnlyBy(SOFTWARE_TOKEN_MFA_CHALLENGE, "authenticate_user_with_mfa_token")
    /\ AnsweredOnlyBy(NEW_PASSWORD_REQUIRED_CHALLENGE, "set_new_password_challenge")
    /\ run.op = "authenticate_user"
       => /\ AnswersTo(SOFTWARE_TOKEN_MFA_CHALLENGE) = {}
          /\ AnswersTo(NEW_PASSWORD_REQUIRED_CHALLENGE) = {}

\* the set-new-password entry point answered NEW_PASSWORD_REQUIRED as its third call
C30_Witness ==
    /\ run.op = "set_new_password_challenge"
    /\ AnswersTo(NEW_PASSWORD_REQUIRED_CHALLENGE) = {3}
    /\ ~Raised(run)

(***************************************************************************)
(* Properties of the key derivations (SpecMath)                            *)
(***************************************************************************)
KeyDerived ==
    run.op \in {"get_password_authentication_key", "get_device_authentication_key"}

\* b^e mod n by e multiplications, for 0 <= b < n
RECURSIVE PowerMod(_, _, _)
PowerMod(b, e, n) == IF e = 0 THEN 1 % n ELSE (b * PowerMod(b, e - 1, n)) % n

\* C31: in the password and the device key derivation S is
\* ((B - k * (g^x mod N)) mod N)^(a + U * x) mod N and lies in 0..N-1 for every server
\* value B, those that make B - k * (g^x mod N) negative included.
C31_SOfReducedBase ==
    (KeyDerived /\ ~Raised(run))
    => LET B == run.arg.server_b_value
           gx == (run.g ^ run.arg.x_value) % run.big_n
           base == (B - run.arg.k * gx) % run.big_n
           e == run.arg.small_a_value + run.arg.u_value * run.arg.x_value
       IN  /\ run.value \in 0..(run.big_n - 1)
           /\ run.value = PowerMod(base, e, run.big_n)

\* a derivation whose intermediate is less than -N and whose S is neither 0 nor 1
C31_Witness ==
    /\ run.op = "get_device_authentication_key"
    /\ ~Raised(run)
    /\ run.int_value2 < 0 - run.big_n
    /\ run.value > 1

(***************************************************************************)
(* Properties of termination (Spec)                                        *)
(***************************************************************************)
EveryRpcReturned == \A i \in 1..Len(last.calls) : ~Failed(last.calls[i].response)

\* the session holds the tokens of the AuthenticationResult of the last response
Authenticated ==
    /\ ~Raised(last)
    /\ "AuthenticationResult" \in DOMAIN last.calls[Len(last.calls)].response
    /\ LET result == last.calls[Len(last.calls)].response["AuthenticationResult"] IN
       TokenSlots(cognito) = <<result["IdToken"], result["AccessToken"],
                               result["RefreshToken"], result["TokenType"]>>

\* C32: authenticate, authenticate_with_mfa_token, new_password_challenge and
\* admin_authenticate, when every RPC returns, end in AUTHENTICATED or in an error after
\* at most four RPCs: one initiate_auth and at most three respond_to_auth_challenge
\* calls; no challenge is answered twice.
C32_AtMostFourRpcs ==
    (AuthenticationAttempt /\ EveryRpcReturned)
    => /\ Len(last.calls) \in 1..4
       /\ last.calls[1].rpc
             = IF last.op = "admin_authenticate" THEN "admin_initiate_auth" ELSE "initiate_auth"
       /\ \A i \in 2..Len(last.calls) :
             /\ last.calls[i].rpc = "respond_to_auth_challenge"
             /\ \A j \in 2..Len(last.calls) :
                   i # j => last.calls[i].kwargs.ChallengeName # last.calls[j].kwargs.ChallengeName
       /\ Raised(last) \/ Authenticated

\* an attempt that went through the device challenges and was authenticated by its
\* fourth RPC
C32_Witness ==
    /\ last.op = "authenticate"
    /\ EveryRpcReturned
    /\ Len(last.calls) = 4
    /\ Authenticated

(***************************************************************************)
(* Properties of failed operations (Spec)                                  *)
(***************************************************************************)
ConfirmDeviceFailed ==
    /\ last.op = "register_device"
    /\ Len(last.calls) = 1
    /\ last.calls[1].rpc = "confirm_device"
    /\ Failed(last.calls[1].response)

\* C33: when the confirm_device RPC of register_device fails, device_password is what it
\* was (None), so the session can still register a device.
C33_FailedConfirmKeepsEligibility ==
    ConfirmDeviceFailed
    => /\ cognito.device_password = last.pre.device_password
       /\ cognito.device_password = None
       /\ can_register_device(cognito)

(***************************************************************************)
(* Properties of the refresh before an operation (SpecAccount)             *)
(***************************************************************************)
\* send_verification, validate_verification or change_password ran on a session whose
\* access token had expired before the clock reading
RanOnExpiredToken ==
    /\ last.op \in {"send_verification", "validate_verification", "change_password"}
    /\ last.pre.access_token # None
    /\ get_unverified_claims(last.pre.access_token).exp < last.now

OwnRpc ==
    CASE last.op = "send_verification" -> "get_user_attribute_verification_code"
      [] last.op = "validate_verification" -> "verify_user_attribute"
      [] last.op = "change_password" -> "change_password"

\* C34: send_verification, validate_verification and change_password on a session whose
\* access token is expired issue the REFRESH_TOKEN call before their own RPC, and their
\* own RPC carries the access token that the refresh returned, not the one the session
\* held before.
C34_OwnRpcCarriesRefreshedToken ==
    RanOnExpiredToken
    => /\ Len(last.calls) >= 1
       /\ last.calls[1].rpc = "initiate_auth"
       /\ last.calls[1].kwargs.AuthFlow = "REFRESH_TOKEN"
       /\ \A i \in 1..Len(last.calls) :
             last.calls[i].rpc = OwnRpc
             => /\ i = 2
                /\ last.calls[i].kwargs.AccessToken
                      = last.calls[1].response["AuthenticationResult"]["AccessToken"]

(***************************************************************************)
(* Properties of a refresh that does not succeed (SpecAccount)             *)
(***************************************************************************)
\* the refresh RPC raised, or came back with an HTTP status other than 200
RefreshNotOk ==
    /\ RefreshIssued
    /\ \/ Failed(RefreshCall.response)
       \/ /\ "ResponseMetadata" \in DOMAIN RefreshCall.response
          /\ RefreshCall.response["ResponseMetadata"]["HTTPStatusCode"] # 200

\* C35: when the refresh RPC fails or its response reports an HTTP status other than 200,
\* renew_access_token leaves access_token, id_token, token_type and refresh_token as they
\* were.
C35_FailedRefreshChangesNothing ==
    RefreshNotOk => TokenSlots(cognito) = TokenSlots(last.pre)

\* a refresh answered with status 500 and with tokens other than those of the session
C35_Witness ==
    /\ RefreshNotOk
    /\ last.op = "renew_access_token"
    /\ ~Failed(RefreshCall.response)
    /\ RefreshCall.response["AuthenticationResult"]["AccessToken"] # last.pre.access_token
    /\ RefreshCall.response["AuthenticationResult"]["IdToken"] # last.pre.id_token

(***************************************************************************)
(* Properties of a logout that fails (Spec)                                *)
(***************************************************************************)
DeviceSlots(c) == <<c.device_key, c.device_group_key, c.device_password>>

\* C36: when the global_sign_out RPC of logout fails, id_token, access_token,
\* refresh_token and token_type keep their values; and logout, failed or not, leaves
\* device_key, device_group_key and device_password as they were.
C36_FailedLogoutClearsNothing ==
    last.op = "logout"
    => /\ Raised(last) => TokenSlots(cognito) = TokenSlots(last.pre)
       /\ DeviceSlots(cognito) = DeviceSlots(last.pre)

\* a failed logout of an authenticated session with a registered device
C36_Witness ==
    /\ last.op = "logout"
    /\ Raised(last)
    /\ Failed(last.calls[1].response)
    /\ last.pre.access_token # None
    /\ last.pre.refresh_token # None
    /\ last.pre.device_password # None
    /\ cognito.access_token # None

====
